---- MODULE Spec2Model ----
(***************************************************************************)
(* A model of teneo_agent.py: the round/lane scheduler (run_continuous),   *)
(* the task ledger (parse_tasks, get_incomplete_tasks), the worker outcome  *)
(* classifier (_analyze_worker) and the run analyzer (analyze_run), with    *)
(* the external workers as processes that write artifacts and flip          *)
(* checkboxes.                                                              *)
(*                                                                          *)
(* Text is a sequence of one-character strings; a file's content is the     *)
(* sequence of its lines (content.split('\n')).                             *)
(***************************************************************************)
EXTENDS Integers, Sequences, FiniteSets, TLC

\* ------------------------------------------------------------------ bounds

\* rounds explored: max_rounds ranges over 0..MaxRounds
MaxRounds == 2
\* lanes explored: num_lanes ranges over 1..MaxLanes
MaxLanes == 2
\* polls of one wait before its timeout must fire (timeout / poll interval,
\* 3600/60 in the source, scaled down)
MaxPolls == 2
\* artifact writes and checkbox flips by external workers explored in one run
MaxWorkerWrites == 4
\* lines of a ledger given to mark_task_complete
MaxLedgerLines == 3
\* directories of AGENT_DIR given to analyze_run alone
MaxSnapshotDirs == 5
\* workers in the metrics given to _detect_patterns alone
MaxWorkers == 10

\* ------------------------------------------------------- program constants

\* handoff.stat().st_size > 50
MinHandoffSize == 50
\* round_num % 5 == 0
CheckpointEvery == 5

\* ------------------------------------------------------------------- text

\* \s, and what str.strip() removes
IsSpace(c) == c \in {" ", "\t", "\n"}

RECURSIVE LStrip(_)
LStrip(s) == IF s # <<>> /\ IsSpace(Head(s)) THEN LStrip(Tail(s)) ELSE s

RECURSIVE RStrip(_)
RStrip(s) ==
    IF s # <<>> /\ IsSpace(s[Len(s)]) THEN RStrip(SubSeq(s, 1, Len(s) - 1)) ELSE s

\* str.strip()
Strip(s) == RStrip(LStrip(s))

\* index of the first character at or after i that is not whitespace
\* (Len(s) + 1 when there is none): what a greedy \s* consumes
RECURSIVE SkipSpaces(_, _)
SkipSpaces(s, i) ==
    IF i <= Len(s) /\ IsSpace(s[i]) THEN SkipSpaces(s, i + 1) ELSE i

\* whether pat occurs in s at position i
OccursAt(s, pat, i) ==
    /\ i + Len(pat) - 1 <= Len(s)
    /\ SubSeq(s, i, i + Len(pat) - 1) = pat

\* str.count(pat) on one line: non-overlapping occurrences, left to right
RECURSIVE CountFrom(_, _, _)
CountFrom(s, pat, i) ==
    IF i + Len(pat) - 1 > Len(s) THEN 0
    ELSE IF OccursAt(s, pat, i) THEN 1 + CountFrom(s, pat, i + Len(pat))
    ELSE CountFrom(s, pat, i + 1)

\* content.count(pat) for a pattern without a line break
RECURSIVE CountIn(_, _)
CountIn(lines, pat) ==
    IF lines = <<>> THEN 0
    ELSE CountFrom(Head(lines), pat, 1) + CountIn(Tail(lines), pat)

\* pat in s
Contains(s, pat) == \E i \in 1..Len(s) : OccursAt(s, pat, i)

\* str.lower() on the alphabet the logs use
LowerChar(c) ==
    CASE c = "E" -> "e" [] c = "R" -> "r" [] c = "O" -> "o"
      [] c = "F" -> "f" [] c = "A" -> "a" [] c = "I" -> "i"
      [] c = "L" -> "l" [] c = "D" -> "d" [] c = "X" -> "x"
      [] OTHER -> c

Lower(s) == [i \in 1..Len(s) |-> LowerChar(s[i])]

PendingBox == <<"-", " ", "[", " ", "]">>
DoneBoxLower == <<"-", " ", "[", "x", "]">>
DoneBoxUpperMut == <<"-", " ", "[", "x", "]">>
DoneBoxUpper == <<"-", " ", "[", "X", "]">>
ErrorWord == <<"e", "r", "r", "o", "r">>
FailedWord == <<"f", "a", "i", "l", "e", "d">>

\* ----------------------------------------------------------------- ledger

\* a file: whether it exists and its lines
NoFile == [exists |-> FALSE, lines |-> <<>>]
File(lines) == [exists |-> TRUE, lines |-> lines]

NoMatch == [matched |-> FALSE, mark |-> " ", mark_at |-> 0, text |-> <<>>]

\* re.match(r'^[\s]*-\s*\[([ xX])\]\s*(.+)$', line): group(1) and group(2)
MatchCheckbox(line) ==
    LET dash == SkipSpaces(line, 1) IN
    IF dash > Len(line) \/ line[dash] # "-" THEN NoMatch
    ELSE
      LET open == SkipSpaces(line, dash + 1) IN
      IF \/ open + 2 > Len(line)
         \/ line[open] # "["
         \/ line[open + 1] \notin {" ", "x", "X"}
         \/ line[open + 2] # "]"
      THEN NoMatch
      ELSE
        LET rest == SubSeq(line, open + 3, Len(line))
            body == SkipSpaces(rest, 1)
        IN  IF rest = <<>> THEN NoMatch
            ELSE [matched |-> TRUE,
                  mark |-> line[open + 1],
                  mark_at |-> open + 1,
                  \* \s* gives one character back when rest is all whitespace
                  text |-> IF body > Len(rest) THEN <<rest[Len(rest)]>>
                           ELSE SubSeq(rest, body, Len(rest))]

RECURSIVE ParseFrom(_, _)
ParseFrom(lines, line_num) ==
    IF line_num > Len(lines) THEN <<>>
    ELSE
      LET match == MatchCheckbox(lines[line_num]) IN
      (IF match.matched
       THEN <<[task |-> Strip(match.text),
               completed |-> LowerChar(match.mark) = "x",
               line_num |-> line_num]>>
       ELSE <<>>) \o ParseFrom(lines, line_num + 1)

\* enumerate(...) without the start of 1
parse_tasks_mut(file) ==
    IF ~file.exists THEN <<>>
    ELSE LET r == ParseFrom(file.lines, 1)
         IN [k \in 1..Len(r) |-> [r[k] EXCEPT !.line_num = @ - 1]]

parse_tasks(file) == IF ~file.exists THEN <<>> ELSE ParseFrom(file.lines, 1)

RECURSIVE Incomplete(_)
Incomplete(ts) ==
    IF ts = <<>> THEN <<>>
    ELSE (IF ~Head(ts).completed THEN <<Head(ts)>> ELSE <<>>) \o Incomplete(Tail(ts))

get_incomplete_tasks(file) == Incomplete(parse_tasks(file))

\* '\n'.join(lines): the content whose split('\n') is lines
RECURSIVE JoinLines(_)
JoinLines(lines) ==
    IF lines = <<>> THEN <<>>
    ELSE IF Len(lines) = 1 THEN lines[1]
    ELSE lines[1] \o <<"\n">> \o JoinLines(Tail(lines))

\* content.split('\n')
RECURSIVE SplitFrom(_, _, _)
SplitFrom(content, i, line) ==
    IF i > Len(content) THEN <<line>>
    ELSE IF content[i] = "\n" THEN <<line>> \o SplitFrom(content, i + 1, <<>>)
    ELSE SplitFrom(content, i + 1, Append(line, content[i]))

SplitLines(content) == SplitFrom(content, 1, <<>>)

\* the characters re.escape puts a backslash before (those the ledgers use)
Specials == {" ", ".", "-", "[", "]", "\t", "\n"}

\* re.escape(task_text)
RECURSIVE re_escape(_)
re_escape(t) ==
    IF t = <<>> THEN <<>>
    ELSE (IF Head(t) \in Specials THEN <<"\\", Head(t)>> ELSE <<Head(t)>>)
         \o re_escape(Tail(t))

\* the position after a match of the pattern text pat (escaped characters,
\* '.' for any character but a line break, literals) at position i of s,
\* 0 when it does not match
RECURSIVE MatchText(_, _, _, _)
MatchText(s, pat, j, i) ==
    IF j > Len(pat) THEN i
    ELSE IF pat[j] = "\\"
    THEN IF i <= Len(s) /\ j + 1 <= Len(pat) /\ s[i] = pat[j + 1]
         THEN MatchText(s, pat, j + 2, i + 1) ELSE 0
    ELSE IF pat[j] = "."
    THEN IF i <= Len(s) /\ s[i] # "\n" THEN MatchText(s, pat, j + 1, i + 1) ELSE 0
    ELSE IF i <= Len(s) /\ s[i] = pat[j]
         THEN MatchText(s, pat, j + 1, i + 1) ELSE 0

\* $ with re.MULTILINE: the end of the content or just before a line break
AtLineEnd(s, i) == i = Len(s) + 1 \/ (i <= Len(s) /\ s[i] = "\n")

\* ^ with re.MULTILINE: the start of the content or just after a line break
AtLineStart(s, i) == i = 1 \/ (i - 1 <= Len(s) /\ s[i - 1] = "\n")

\* (\s*{escaped})$ at position c: the greedy \s* gives characters back until
\* the text and the line end match; the position after the match, 0 when none
RECURSIVE MatchTail(_, _, _, _)
MatchTail(s, pat, c, k) ==
    LET stop == MatchText(s, pat, 1, k) IN
    IF stop # 0 /\ AtLineEnd(s, stop) THEN stop
    ELSE IF k = c THEN 0
    ELSE MatchTail(s, pat, c, k - 1)

NoBox == [box |-> 0, stop |-> 0]

\* ^([\s]*-\s*)\[ \](\s*{escaped})$ at position p: where the box is and where
\* the match ends
MatchPending(s, pat, p) ==
    LET dash == SkipSpaces(s, p) IN
    IF dash > Len(s) \/ s[dash] # "-" THEN NoBox
    ELSE
      LET open == SkipSpaces(s, dash + 1) IN
      IF ~OccursAt(s, <<"[", " ", "]">>, open) THEN NoBox
      ELSE
        LET stop == MatchTail(s, pat, open + 3, SkipSpaces(s, open + 3)) IN
        IF stop = 0 THEN NoBox ELSE [box |-> open + 1, stop |-> stop]

\* re.subn(pattern, r'\1[x]\2', content, flags=re.MULTILINE) from position p on:
\* every match, left to right, without overlap
RECURSIVE SubnFrom(_, _, _)
SubnFrom(s, pat, p) ==
    IF p > Len(s) THEN [content |-> s, count |-> 0]
    ELSE
      LET m == IF AtLineStart(s, p) THEN MatchPending(s, pat, p) ELSE NoBox IN
      IF m.box = 0 THEN SubnFrom(s, pat, p + 1)
      ELSE LET rest == SubnFrom([s EXCEPT ![m.box] = "x"], pat, m.stop)
           IN [content |-> rest.content, count |-> rest.count + 1]

\* a mark_task_complete that stops after the first match (count=1)
mark_first_only(file, task_text) ==
    IF ~file.exists THEN [ret |-> FALSE, written |-> FALSE, file |-> file]
    ELSE
      LET s == JoinLines(file.lines)
          pat == re_escape(task_text)
          starts == {p \in 1..Len(s) :
                        AtLineStart(s, p) /\ MatchPending(s, pat, p).box # 0}
      IN IF starts = {} THEN [ret |-> FALSE, written |-> FALSE, file |-> file]
         ELSE LET p == CHOOSE q \in starts : \A r \in starts : q <= r
                  new == [s EXCEPT ![MatchPending(s, pat, p).box] = "x"]
              IN [ret |-> TRUE, written |-> TRUE, file |-> File(SplitLines(new))]

\* mark_task_complete: what it returns, whether it wrote, the file afterwards
mark_task_complete(file, task_text) ==
    IF ~file.exists THEN [ret |-> FALSE, written |-> FALSE, file |-> file]
    ELSE
      LET sub == SubnFrom(JoinLines(file.lines), re_escape(task_text), 1) IN
      IF sub.count > 0
      THEN [ret |-> TRUE, written |-> TRUE, file |-> File(SplitLines(sub.content))]
      ELSE [ret |-> FALSE, written |-> FALSE, file |-> file]

\* tasks[:k] with Python's slice semantics (a negative k counts from the end)
SliceToMut(s, k) == SubSeq(s, 1, IF k + 1 < Len(s) THEN k + 1 ELSE Len(s))

SliceFromSecond(s, k) == SubSeq(s, 2, IF k + 1 < Len(s) THEN k + 1 ELSE Len(s))

SliceTo(s, k) ==
    LET stop == IF k >= 0 THEN (IF k < Len(s) THEN k ELSE Len(s))
                ELSE (IF Len(s) + k > 0 THEN Len(s) + k ELSE 0)
    IN SubSeq(s, 1, stop)

\* ------------------------------------------------------------- validation

validate_project_mut(claude, tasks_file) ==
    LET has_tasks == tasks_file.exists
        issues ==
          (IF ~claude THEN <<"no_claude_md">> ELSE <<>>)
          \o (IF ~tasks_file.exists THEN <<"no_tasks_md">> ELSE <<>>)
    IN [ready |-> issues = <<>>, issues |-> issues,
        has_claude_md |-> claude, has_tasks |-> has_tasks]

validate_project(claude, tasks_file) ==
    LET incomplete_count ==
          IF tasks_file.exists THEN CountIn(tasks_file.lines, PendingBox) ELSE 0
        has_tasks == tasks_file.exists /\ incomplete_count > 0
        issues ==
          (IF ~claude THEN <<"no_claude_md">> ELSE <<>>)
          \o (IF tasks_file.exists
              THEN (IF ~has_tasks THEN <<"no_incomplete_tasks">> ELSE <<>>)
              ELSE <<"no_tasks_md">>)
    IN [ready |-> issues = <<>>, issues |-> issues,
        has_claude_md |-> claude, has_tasks |-> has_tasks]

\* ------------------------------------------------------------- classifier

\* a worker output directory round_<r>_lane_<l>
NoDir == [present |-> FALSE, worker_md |-> FALSE,
          handoff |-> FALSE, handoff_size |-> 0,
          log |-> FALSE, log_text |-> <<>>]

_analyze_worker_log_first(d) ==
    IF d.log /\ (Contains(Lower(d.log_text), ErrorWord)
                 \/ Contains(Lower(d.log_text), FailedWord))
    THEN "failed"
    ELSE IF d.handoff /\ d.handoff_size > MinHandoffSize THEN "complete"
    ELSE "timeout"

_analyze_worker_mut(d) ==
    IF d.handoff /\ d.handoff_size >= MinHandoffSize THEN "complete"
    ELSE IF d.log
    THEN (IF Contains(Lower(d.log_text), ErrorWord)
             \/ Contains(Lower(d.log_text), FailedWord)
          THEN "failed" ELSE "timeout")
    ELSE "timeout"

\* a directory without a verdict gets a status of its own
_analyze_worker_unknown(d) ==
    IF d.handoff /\ d.handoff_size > MinHandoffSize THEN "complete"
    ELSE IF d.log
    THEN (IF Contains(Lower(d.log_text), ErrorWord)
             \/ Contains(Lower(d.log_text), FailedWord)
          THEN "failed" ELSE "unknown")
    ELSE "unknown"

\* the status _analyze_worker gives a directory
_analyze_worker(d) ==
    IF d.handoff /\ d.handoff_size > MinHandoffSize THEN "complete"
    ELSE IF d.log
    THEN (IF Contains(Lower(d.log_text), ErrorWord)
             \/ Contains(Lower(d.log_text), FailedWord)
          THEN "failed" ELSE "timeout")
    ELSE "timeout"

\* ------------------------------------------------------------------ state

VARIABLES
    claude_md,         \* whether <project>/CLAUDE.md exists
    tasks_md,          \* <project>/TASKS.md
    has_git,           \* whether <project>/.git exists and git runs
    dirs,              \* AGENT_DIR: <<round, lane>> -> directory content
    procs,             \* worker processes started and never killed
    writes,            \* worker writes so far (bounded by MaxWorkerWrites)
    num_lanes,         \* run_continuous arguments
    max_rounds,
    pc,                \* the scheduler's position in run_continuous
    round_num,
    tasks,
    tasks_this_round,
    lane_num,
    rounds_completed,
    validation,
    polls,             \* polls done by the current wait_for_workers call
    analysis,
    trace              \* what the scheduler did, in order (its log lines)

vars == <<claude_md, tasks_md, has_git, dirs, procs, writes, num_lanes, max_rounds, pc,
          round_num, tasks, tasks_this_round, lane_num, rounds_completed,
          validation, polls, analysis, trace>>

project == <<claude_md, tasks_md, has_git>>
sched_but_analysis ==
    <<num_lanes, max_rounds, round_num, tasks, tasks_this_round, lane_num,
      rounds_completed, validation, polls>>
sched == <<num_lanes, max_rounds, round_num, tasks, tasks_this_round, lane_num,
           rounds_completed, validation, polls, analysis>>

\* ----------------------------------------------------------------- inputs

LaneChoices == 1..MaxLanes
RoundChoices == 0..MaxRounds

\* the longest ledger has MaxRounds + 1 task lines
Letters == <<"a", "b", "c", "d", "e", "f">>
TaskLine(mark, i) == <<"-", " ", "[", mark, "]", " ", Letters[i]>>
AllPending(n) == [i \in 1..n |-> TaskLine(" ", i)]

InitialLedgers ==
    { NoFile,
      \* an empty file
      File(<< <<>> >>),
      \* a checkbox with no text: counted by validate_project, no task for the parser
      File(<< PendingBox >>),
      \* one done, one pending (indented, extra spaces, trailing space)
      File(<< TaskLine("X", 1), <<" ", "-", "[", " ", "]", " ", " ", "b", " ">> >>),
      \* the same text twice
      File(<< TaskLine(" ", 1), TaskLine(" ", 1) >>) }
    \cup { File(AllPending(n)) : n \in 1..(MaxRounds + 1) }

\* the project the run starts on: every ledger beside a CLAUDE.md, and two
\* projects without one
Projects ==
    { [claude_md |-> TRUE, tasks_md |-> f] : f \in InitialLedgers }
    \cup { [claude_md |-> FALSE, tasks_md |-> f] : f \in {NoFile, File(AllPending(1))} }

\* what the setup worker may write as TASKS.md
SetupLedgers == { File(AllPending(1)), File(<< TaskLine("x", 1) >>) }

\* what a worker may write as LOG.md
LogTexts == { <<"E", "r", "r", "o", "r">> }

\* sizes of the HANDOFF.md a worker may write
HandoffSizes == { MinHandoffSize, MinHandoffSize + 1 }

\* run durations in minutes
Durations == { 1, 2 }

SetupTask == <<"s", "e", "t", "u", "p">>

MaxLaneIdx == IF MaxLanes > MaxRounds + 1 THEN MaxLanes ELSE MaxRounds + 1
DirKeys == (0..MaxRounds) \X (1..MaxLaneIdx)

\* a directory left by an earlier run: its instructions and a full handoff
StaleDir == [present |-> TRUE, worker_md |-> TRUE,
             handoff |-> TRUE, handoff_size |-> MinHandoffSize + 1,
             log |-> FALSE, log_text |-> <<>>]

EmptyDirs == [k \in DirKeys |-> NoDir]
StaleDirs == [k \in DirKeys |-> IF k = <<1, 1>> THEN StaleDir ELSE NoDir]

\* the machine the run starts on: AGENT_DIR and whether checkpoints can succeed
Environments ==
    { [dirs |-> EmptyDirs, has_git |-> TRUE],
      [dirs |-> StaleDirs, has_git |-> TRUE],
      [dirs |-> EmptyDirs, has_git |-> FALSE] }

\* ------------------------------------------------------------------ trace

Ev(e, r) == [ev |-> e, round |-> r, lane |-> 0, task |-> <<>>, line |-> 0,
             ok |-> TRUE, n |-> 0, tasks |-> <<>>, missing |-> {}]

\* log(...) and the call it announces
Log(e) == trace' = Append(trace, e)

NoValidation == [ready |-> FALSE, issues |-> <<>>,
                 has_claude_md |-> FALSE, has_tasks |-> FALSE]

NoAnalysis == [done |-> FALSE]

Init ==
    /\ \E prj \in Projects : claude_md = prj.claude_md /\ tasks_md = prj.tasks_md
    /\ \E env \in Environments : dirs = env.dirs /\ has_git = env.has_git
    /\ procs = {}
    /\ writes = 0
    /\ num_lanes \in LaneChoices
    /\ max_rounds \in RoundChoices
    /\ pc = "validate"
    /\ round_num = 0
    /\ tasks = <<>>
    /\ tasks_this_round = <<>>
    /\ lane_num = 0
    /\ rounds_completed = 0
    /\ validation = NoValidation
    /\ polls = 0
    /\ analysis = NoAnalysis
    \* the banner: the run starts, with what AGENT_DIR already holds
    /\ trace = <<[Ev("start", 0) EXCEPT
                    !.n = Cardinality({k \in DirKeys : dirs[k].present})]>>

\* --------------------------------------------------------------- analysis

\* sorted(AGENT_DIR.glob("round_*_lane_*")): the directories in (round, lane) order
KeyAt(i) == <<(i - 1) \div MaxLaneIdx, ((i - 1) % MaxLaneIdx) + 1>>

RECURSIVE WorkersFrom(_, _)
WorkersFrom(ds, i) ==
    IF i > Cardinality(DOMAIN ds) THEN <<>>
    ELSE (IF ds[KeyAt(i)].present
          THEN <<[dir |-> KeyAt(i), status |-> _analyze_worker(ds[KeyAt(i)])]>>
          ELSE <<>>) \o WorkersFrom(ds, i + 1)

CountStatus(workers, status) ==
    Cardinality({i \in 1..Len(workers) : workers[i].status = status})

\* failure_rate >= 0.3
HighFailureRateGe(metrics) ==
    /\ metrics.total_workers > 0
    /\ 10 * (metrics.failed + metrics.timeout) >= 3 * metrics.total_workers

\* lines 559-561: (failed + timeout) / total_workers > 0.3; the float quotient
\* compares with 0.3 as the exact fraction does with 3/10
HighFailureRate(metrics) ==
    /\ metrics.total_workers > 0
    /\ 10 * (metrics.failed + metrics.timeout) > 3 * metrics.total_workers

\* line 570: metrics.get("tasks_completed", 0) == 0 and metrics["completed"] > 0
TasksNotMarked(metrics) == metrics.tasks_completed = 0 /\ metrics.completed > 0

\* completed >= 2
ShallowWorkGe(metrics) == metrics.completed >= 2 /\ metrics.duration_minutes < 2

\* line 579: metrics["completed"] > 2 and metrics["duration_minutes"] < 2
ShallowWork(metrics) == metrics.completed > 2 /\ metrics.duration_minutes < 2

_detect_patterns(workers, metrics) ==
    (IF HighFailureRate(metrics)
     THEN <<[type |-> "high_failure_rate", severity |-> "high"]>> ELSE <<>>)
    \o (IF TasksNotMarked(metrics)
        THEN <<[type |-> "tasks_not_marked", severity |-> "medium"]>> ELSE <<>>)
    \o (IF ShallowWork(metrics)
        THEN <<[type |-> "shallow_work", severity |-> "medium"]>> ELSE <<>>)

\* the first improvement is P0 whatever its pattern
_generate_improvements_first(patterns) ==
    [i \in 1..Len(patterns) |->
        [priority |-> IF i = 1 THEN "P0" ELSE "P1",
         title |-> patterns[i].type]]

_generate_improvements(patterns) ==
    [i \in 1..Len(patterns) |->
        [priority |-> IF patterns[i].severity = "high" THEN "P0" ELSE "P1",
         title |-> patterns[i].type]]

\* analyze_run: the classifier over every directory, the ledger's literal counts
\* (0 where metrics.get defaults a missing key), the patterns
analyze_run(ds, tasks_file, rounds_done, duration) ==
    LET workers == WorkersFrom(ds, 1)
        total_workers == Len(workers)
        completed == CountStatus(workers, "complete")
        metrics ==
          [total_workers |-> total_workers,
           completed |-> completed,
           failed |-> CountStatus(workers, "failed"),
           timeout |-> CountStatus(workers, "timeout"),
           \* completed / total_workers * 100, as the fraction num / den
           success_rate |-> IF total_workers > 0
                            THEN [num |-> completed * 100, den |-> total_workers]
                            ELSE [num |-> 0, den |-> 1],
           duration_minutes |-> duration,
           has_task_counts |-> tasks_file.exists,
           tasks_completed |-> IF tasks_file.exists
                               THEN CountIn(tasks_file.lines, DoneBoxLower)
                                    + CountIn(tasks_file.lines, DoneBoxUpper)
                               ELSE 0,
           tasks_pending |-> IF tasks_file.exists
                             THEN CountIn(tasks_file.lines, PendingBox) ELSE 0]
        patterns == _detect_patterns(workers, metrics)
    IN [done |-> TRUE,
        rounds_completed |-> rounds_done,
        workers |-> workers,
        metrics |-> metrics,
        patterns |-> patterns,
        improvements |-> _generate_improvements(patterns)]

\* -------------------------------------------------------------- scheduler

\* the output directory is named after the round only
spawn_worker_lane1(r, l, task, line, started) ==
    /\ dirs' = [dirs EXCEPT ![<<r, 1>>] =
                  [@ EXCEPT !.present = TRUE, !.worker_md = TRUE]]
    /\ procs' = IF started
                THEN procs \cup {[round |-> r, lane |-> l, task |-> task]}
                ELSE procs
    /\ Log([Ev("spawn", r) EXCEPT !.lane = l, !.task = task, !.line = line,
                                  !.ok = started])

\* the output directory is emptied before WORKER.md is written
spawn_worker_clean(r, l, task, line, started) ==
    /\ dirs' = [dirs EXCEPT ![<<r, l>>] =
                  [NoDir EXCEPT !.present = TRUE, !.worker_md = TRUE]]
    /\ procs' = IF started
                THEN procs \cup {[round |-> r, lane |-> l, task |-> task]}
                ELSE procs
    /\ Log([Ev("spawn", r) EXCEPT !.lane = l, !.task = task, !.line = line,
                                  !.ok = started])

\* a launch ends the workers of earlier rounds
spawn_worker_kill(r, l, task, line, started) ==
    /\ dirs' = [dirs EXCEPT ![<<r, l>>] =
                  [@ EXCEPT !.present = TRUE, !.worker_md = TRUE]]
    /\ procs' = {q \in procs : q.round = r}
                    \cup (IF started
                          THEN {[round |-> r, lane |-> l, task |-> task]}
                          ELSE {})
    /\ Log([Ev("spawn", r) EXCEPT !.lane = l, !.task = task, !.line = line,
                                  !.ok = started])

\* create_worker_prompt then the platform's launch: the directory and WORKER.md
\* are written first; started is whether Popen succeeded
spawn_worker(r, l, task, line, started) ==
    /\ dirs' = [dirs EXCEPT ![<<r, l>>] =
                  [@ EXCEPT !.present = TRUE, !.worker_md = TRUE]]
    /\ procs' = IF started
                THEN procs \cup {[round |-> r, lane |-> l, task |-> task]}
                ELSE procs
    /\ Log([Ev("spawn", r) EXCEPT !.lane = l, !.task = task, !.line = line,
                                  !.ok = started])

is_worker_complete(r, l) == dirs[<<r, l>>].handoff

\* only the lanes whose worker was started are counted
MissingStarted(n, r) ==
    {l \in 1..n : /\ ~is_worker_complete(r, l)
                  /\ \E p \in procs : p.round = r /\ p.lane = l}

\* lanes 1..n of round r whose handoff is missing
Missing(n, r) == {l \in 1..n : ~is_worker_complete(r, l)}

\* run_continuous, lines 756-762
Validate ==
    /\ pc = "validate"
    /\ validation' = validate_project(claude_md, tasks_md)
    /\ pc' = IF validation'.ready THEN "prerun_checkpoint" ELSE "setup_spawn"
    /\ Log([Ev("validate", 0) EXCEPT !.ok = validation'.ready])
    /\ UNCHANGED <<project, dirs, procs, writes, num_lanes, max_rounds, round_num,
                   tasks, tasks_this_round, lane_num, rounds_completed, polls,
                   analysis>>

\* run_continuous, lines 764-780: the setup worker, round 0 lane 1
SetupSpawn ==
    /\ pc = "setup_spawn"
    /\ \E started \in BOOLEAN : spawn_worker(0, 1, SetupTask, 0, started)
    /\ pc' = "setup_wait"
    /\ polls' = 0
    /\ UNCHANGED <<project, writes, num_lanes, max_rounds, round_num, tasks,
                   tasks_this_round, lane_num, rounds_completed, validation,
                   analysis>>

\* the arguments of the wait_for_workers call in progress
WaitLanes == IF pc = "setup_wait" THEN 1 ELSE Len(tasks_this_round)
WaitRound == IF pc = "setup_wait" THEN 0 ELSE round_num
AfterWaitMut == IF pc = "setup_wait" THEN "prerun_checkpoint" ELSE "end_round"

\* lines 780-783 and 833-835: the result of the wait is dropped
AfterWait == IF pc = "setup_wait" THEN "revalidate" ELSE "end_round"

AllCompleteMut == Missing(WaitLanes, WaitRound) # 1..WaitLanes

\* completed == num_lanes
AllComplete == Missing(WaitLanes, WaitRound) = {}

\* wait_for_workers: one pass of the loop with time left; returns True when
\* every lane's handoff exists, sleeps 60 s otherwise
WaitPoll ==
    /\ pc \in {"setup_wait", "wait"}
    /\ polls < MaxPolls
    /\ IF AllComplete
       THEN /\ pc' = AfterWait
            /\ polls' = 0
            /\ Log([Ev("wait", WaitRound) EXCEPT !.n = WaitLanes, !.ok = TRUE])
       ELSE /\ polls' = polls + 1
            /\ UNCHANGED <<pc, trace>>
    /\ UNCHANGED <<project, dirs, procs, writes, num_lanes, max_rounds, round_num,
                   tasks, tasks_this_round, lane_num, rounds_completed, validation,
                   analysis>>

\* a wait without a timeout
TimedOutNever(n) == FALSE

\* line 435: time.time() - start_time < timeout fails; the timeout is positive,
\* so at least one pass of the loop was made
TimedOut(n) == n >= 1

\* wait_for_workers: the loop condition fails after a sleep; returns False
WaitTimeout ==
    /\ pc \in {"setup_wait", "wait"}
    /\ TimedOut(polls)
    /\ pc' = AfterWait
    /\ polls' = 0
    /\ Log([Ev("wait", WaitRound) EXCEPT !.n = WaitLanes, !.ok = FALSE,
                                         !.missing = Missing(WaitLanes, WaitRound)])
    /\ UNCHANGED <<project, dirs, procs, writes, num_lanes, max_rounds, round_num,
                   tasks, tasks_this_round, lane_num, rounds_completed, validation,
                   analysis>>

AfterFailedSetupMut == "prerun_checkpoint"

\* line 787: return
AfterFailedSetup == "aborted"

\* run_continuous, lines 782-790
Revalidate ==
    /\ pc = "revalidate"
    /\ validation' = validate_project(claude_md, tasks_md)
    /\ pc' = IF validation'.ready THEN "prerun_checkpoint" ELSE AfterFailedSetup
    /\ Log([Ev("validate", 0) EXCEPT !.ok = validation'.ready])
    /\ UNCHANGED <<project, dirs, procs, writes, num_lanes, max_rounds, round_num,
                   tasks, tasks_this_round, lane_num, rounds_completed, polls,
                   analysis>>

\* git_checkpoint: False without a repository (or when git cannot run), True
\* otherwise, also when there is nothing to commit; the caller drops the result
git_checkpoint(msg, r) ==
    Log([Ev("checkpoint", r) EXCEPT !.task = msg, !.ok = has_git])

\* run_continuous, lines 795-802
PreRunCheckpoint ==
    /\ pc = "prerun_checkpoint"
    /\ git_checkpoint(<<"pre-run">>, 0)
    /\ pc' = "round_start"
    /\ UNCHANGED <<project, dirs, procs, writes, sched>>

LoopEndsMut(ts) == FALSE

\* lines 813-815: if not tasks: break
LoopEnds(ts) == ts = <<>>

\* the break leaves for the analysis directly
AfterBreakMut == "analyze"

\* lines 813-815 and 845-847: break leaves the for loop only; the final
\* checkpoint after the loop is made as after the last round
AfterBreak == "final_checkpoint"

AfterLastLaneMut == "end_round"

\* lines 831-833: the spawn loop is followed by wait_for_workers
AfterLastLane == "wait"

\* a round counts only when a task was assigned to a lane in it
RoundsCompletedAssigned(prev, r, assigned) == IF assigned # <<>> THEN r ELSE prev

\* line 817: rounds_completed = round_num, set once the ledger read found a
\* pending task and before the slice is taken
RoundsCompleted(prev, r, assigned) == r

\* run_continuous, lines 804-821: the next iteration of the for loop reads
\* the ledger; the loop ends when the range is exhausted or no task is pending
RoundStart ==
    /\ pc = "round_start"
    /\ IF round_num + 1 > max_rounds
       THEN /\ pc' = "final_checkpoint"
            /\ UNCHANGED <<round_num, tasks, tasks_this_round, lane_num,
                           rounds_completed, trace>>
       ELSE /\ round_num' = round_num + 1
            /\ tasks' = get_incomplete_tasks(tasks_md)
            /\ Log([Ev("read", round_num') EXCEPT !.n = Len(tasks'),
                                                  !.tasks = tasks'])
            /\ IF LoopEnds(tasks')
               THEN /\ pc' = AfterBreak
                    /\ UNCHANGED <<tasks_this_round, lane_num, rounds_completed>>
               ELSE /\ tasks_this_round' = SliceTo(tasks', num_lanes)
                    /\ rounds_completed' = RoundsCompleted(rounds_completed, round_num',
                                                           tasks_this_round')
                    /\ lane_num' = 1
                    /\ pc' = IF tasks_this_round' = <<>> THEN AfterLastLane
                             ELSE "spawn"
    /\ UNCHANGED <<project, dirs, procs, writes, num_lanes, max_rounds, validation,
                   polls, analysis>>

\* a launch that failed ends the loop of rounds
AfterSpawnMut(started, last) ==
    IF ~started THEN "final_checkpoint"
    ELSE IF last THEN AfterLastLane ELSE "spawn"

\* lines 824-833: the value spawn_worker returns is not used; the spawn loop
\* goes on with the next lane and after the last lane the wait begins
AfterSpawn(started, last) == IF last THEN AfterLastLane ELSE "spawn"

\* run_continuous, lines 823-829: one iteration of the spawn loop
SpawnLane ==
    /\ pc = "spawn"
    /\ lane_num <= Len(tasks_this_round)
    /\ \E started \in BOOLEAN :
          /\ spawn_worker(round_num, lane_num, tasks_this_round[lane_num].task,
                          tasks_this_round[lane_num].line_num, started)
          /\ pc' = AfterSpawn(started, lane_num + 1 > Len(tasks_this_round))
    /\ lane_num' = lane_num + 1
    /\ UNCHANGED <<project, writes, num_lanes, max_rounds, round_num, tasks,
                   tasks_this_round, rounds_completed, validation, polls, analysis>>

\* the delay is taken after the last round too
DelayAfterEvery(r, last) == r <= last

\* lines 840-843: if round_num < max_rounds: time.sleep(round_delay)
DelayAfter(r, last) == r < last

\* a checkpoint after every round from the fifth on
IsCheckpointRoundFrom(r) == r >= CheckpointEvery

\* line 836: round_num % 5 == 0
IsCheckpointRound(r) == r % CheckpointEvery = 0

\* the scheduler checks the box of the round's first task itself
LedgerAfterRoundMarked(file, round_tasks) ==
    IF file.exists /\ round_tasks # <<>>
    THEN mark_task_complete(file, round_tasks[1].task).file
    ELSE file

\* lines 831-843: between the wait and the next round nothing calls
\* mark_task_complete or writes TASKS.md; the ledger is left as the workers
\* made it
LedgerAfterRound(file, round_tasks) == file

\* run_continuous, lines 835-843: the periodic checkpoint and the delay
EndRound ==
    /\ pc = "end_round"
    /\ trace' = trace
         \o (IF IsCheckpointRound(round_num)
             THEN <<[Ev("checkpoint", round_num) EXCEPT !.task = <<"periodic">>,
                                                        !.ok = has_git]>>
             ELSE <<>>)
         \o (IF DelayAfter(round_num, max_rounds)
             THEN <<Ev("delay", round_num)>> ELSE <<>>)
    /\ pc' = "round_start"
    /\ tasks_md' = LedgerAfterRound(tasks_md, tasks_this_round)
    /\ UNCHANGED <<claude_md, has_git, dirs, procs, writes, sched>>

\* run_continuous, lines 845-847
FinalCheckpoint ==
    /\ pc = "final_checkpoint"
    /\ git_checkpoint(<<"final">>, round_num)
    /\ pc' = "analyze"
    /\ UNCHANGED <<project, dirs, procs, writes, sched>>

\* run_continuous, lines 852-855
Analyze ==
    /\ pc = "analyze"
    /\ \E duration \in Durations :
         analysis' = analyze_run(dirs, tasks_md, rounds_completed, duration)
    /\ Log(Ev("analyze", round_num))
    /\ pc' = "done"
    /\ UNCHANGED <<project, dirs, procs, writes, num_lanes, max_rounds, round_num,
                   tasks, tasks_this_round, lane_num, rounds_completed, validation,
                   polls>>

\* ---------------------------------------------------------------- workers

\* The workers are external processes: each may write its HANDOFF.md and its
\* LOG.md once and check its task's box, in any order and at any time after it
\* was started (the scheduler never stops one).

DirOf(p) == <<p.round, p.lane>>

\* The scheduler looks at what the workers write in few places: a poll of a
\* wait sees the handoffs, the ledger read of a round and the re-validation see
\* TASKS.md and CLAUDE.md, the analysis sees everything. A write is taken at the
\* last moment before a look that can see it: the scheduler steps in between
\* read nothing a worker writes, so every sequence of observations is kept.
\* The run ends when run_continuous returns.
SeesHandoff == pc \in {"setup_wait", "wait", "analyze"}
SeesLog == pc = "analyze"
SeesLedger == pc \in {"revalidate", "round_start", "analyze"}
SeesClaude == pc = "revalidate"

WorkerWriteHandoff(p) ==
    /\ SeesHandoff
    /\ writes < MaxWorkerWrites
    /\ ~dirs[DirOf(p)].handoff
    /\ \E size \in HandoffSizes :
         dirs' = [dirs EXCEPT ![DirOf(p)] =
                    [@ EXCEPT !.handoff = TRUE, !.handoff_size = size]]
    /\ writes' = writes + 1
    /\ UNCHANGED <<project, procs, pc, sched, trace>>

WorkerWriteLog(p) ==
    /\ SeesLog
    /\ writes < MaxWorkerWrites
    /\ ~dirs[DirOf(p)].log
    /\ \E text \in LogTexts :
         dirs' = [dirs EXCEPT ![DirOf(p)] =
                    [@ EXCEPT !.log = TRUE, !.log_text = text]]
    /\ writes' = writes + 1
    /\ UNCHANGED <<project, procs, pc, sched, trace>>

\* the lines of the ledger that hold the unchecked task with this text
PendingLines(file, text) ==
    {i \in 1..Len(file.lines) :
        LET match == MatchCheckbox(file.lines[i]) IN
        match.matched /\ match.mark = " " /\ Strip(match.text) = text}

\* the worker edits TASKS.md: [ ] becomes [x] on one line holding its task
WorkerFlip(p) ==
    /\ SeesLedger
    /\ writes < MaxWorkerWrites
    /\ p.round >= 1
    /\ tasks_md.exists
    /\ \E i \in PendingLines(tasks_md, p.task) :
         tasks_md' = [tasks_md EXCEPT
                        !.lines[i][MatchCheckbox(tasks_md.lines[i]).mark_at] = "x"]
    /\ writes' = writes + 1
    /\ UNCHANGED <<claude_md, has_git, dirs, procs, pc, sched, trace>>

\* the setup worker creates CLAUDE.md
SetupWriteClaude(p) ==
    /\ SeesClaude
    /\ writes < MaxWorkerWrites
    /\ p.round = 0
    /\ ~claude_md
    /\ claude_md' = TRUE
    /\ writes' = writes + 1
    /\ UNCHANGED <<tasks_md, has_git, dirs, procs, pc, sched, trace>>

\* the setup worker creates or rewrites TASKS.md
SetupWriteTasks(p) ==
    /\ SeesLedger
    /\ writes < MaxWorkerWrites
    /\ p.round = 0
    /\ \E file \in SetupLedgers : file # tasks_md /\ tasks_md' = file
    /\ writes' = writes + 1
    /\ UNCHANGED <<claude_md, has_git, dirs, procs, pc, sched, trace>>

WriteHandoff == \E p \in procs : WorkerWriteHandoff(p)
WriteLog == \E p \in procs : WorkerWriteLog(p)
FlipCheckbox == \E p \in procs : WorkerFlip(p)
WriteClaude == \E p \in procs : SetupWriteClaude(p)
WriteTasks == \E p \in procs : SetupWriteTasks(p)

Worker ==
    \/ WriteHandoff
    \/ WriteLog
    \/ FlipCheckbox
    \/ WriteClaude
    \/ WriteTasks

Scheduler ==
    \/ Validate
    \/ SetupSpawn
    \/ WaitPoll
    \/ WaitTimeout
    \/ Revalidate
    \/ PreRunCheckpoint
    \/ RoundStart
    \/ SpawnLane
    \/ EndRound
    \/ FinalCheckpoint
    \/ Analyze

Next == Scheduler \/ Worker

Spec == Init /\ [][Next]_vars

\* the scheduler is a running process: it takes its next step
FairSpec == Spec /\ WF_vars(Scheduler)

TypeOK ==
    /\ pc \in {"validate", "setup_spawn", "setup_wait", "revalidate", "aborted",
               "prerun_checkpoint", "round_start", "spawn", "wait", "end_round",
               "final_checkpoint", "analyze", "done"}
    /\ round_num \in 0..MaxRounds
    /\ writes \in 0..MaxWorkerWrites

\* ------------------------------------------------- the classifier alone

\* directory snapshots: every combination of a handoff (absent, or of a size
\* around the threshold), a log (absent, or one of the texts) and WORKER.md
SnapshotSizes == {0, MinHandoffSize - 1, MinHandoffSize, MinHandoffSize + 1,
                  2 * MinHandoffSize}
SnapshotLogs ==
    { <<>>,
      <<"o", "k">>,
      <<"E", "r", "r", "o", "r">>,
      <<"x", "F", "A", "I", "L", "E", "D">>,
      <<"f", "a", "i", "l">>,
      <<"e", "r", "r", " ", "o", "r">>,
      <<"a", " ", "e", "r", "r", "o", "r", "!">> }
Snapshots ==
    { [present |-> TRUE, worker_md |-> w, handoff |-> TRUE, handoff_size |-> n,
       log |-> TRUE, log_text |-> t] :
         w \in BOOLEAN, n \in SnapshotSizes, t \in SnapshotLogs }
    \cup { [present |-> TRUE, worker_md |-> w, handoff |-> FALSE, handoff_size |-> 0,
            log |-> TRUE, log_text |-> t] : w \in BOOLEAN, t \in SnapshotLogs }
    \cup { [present |-> TRUE, worker_md |-> w, handoff |-> TRUE, handoff_size |-> n,
            log |-> FALSE, log_text |-> <<>>] : w \in BOOLEAN, n \in SnapshotSizes }
    \cup { [present |-> TRUE, worker_md |-> w, handoff |-> FALSE, handoff_size |-> 0,
            log |-> FALSE, log_text |-> <<>>] : w \in BOOLEAN }

\* the directory the classifier is applied to
Probe == <<1, 1>>

InitClassify ==
    /\ claude_md = TRUE
    /\ tasks_md = NoFile
    /\ has_git = FALSE
    /\ \E snap \in Snapshots : dirs = [k \in DirKeys |-> IF k = Probe THEN snap ELSE NoDir]
    /\ procs = {}
    /\ writes = 0
    /\ num_lanes = 1
    /\ max_rounds = 0
    /\ pc = "classify"
    /\ round_num = 0
    /\ tasks = <<>>
    /\ tasks_this_round = <<>>
    /\ lane_num = 0
    /\ rounds_completed = 0
    /\ validation = NoValidation
    /\ polls = 0
    /\ analysis = [done |-> FALSE, status |-> "none", again |-> "none"]
    /\ trace = <<>>

\* _analyze_worker on the snapshot
Classify ==
    /\ pc = "classify"
    /\ analysis' = [analysis EXCEPT !.status = _analyze_worker(dirs[Probe])]
    /\ pc' = "classified"
    /\ UNCHANGED <<project, dirs, procs, writes, num_lanes, max_rounds, round_num,
                   tasks, tasks_this_round, lane_num, rounds_completed, validation,
                   polls, trace>>

\* _analyze_worker again on the unchanged snapshot
ClassifyAgain ==
    /\ pc = "classified"
    /\ analysis' = [analysis EXCEPT !.again = _analyze_worker(dirs[Probe])]
    /\ pc' = "classified_twice"
    /\ UNCHANGED <<project, dirs, procs, writes, num_lanes, max_rounds, round_num,
                   tasks, tasks_this_round, lane_num, rounds_completed, validation,
                   polls, trace>>

NextClassify == Classify \/ ClassifyAgain

SpecClassify == InitClassify /\ [][NextClassify]_vars

\* ----------------------------------------------------- the ledger alone

\* the lines a ledger is made of: task lines in several layouts, checked and
\* unchecked, and lines that are no task
LedgerLines ==
    { <<"-", " ", "[", " ", "]", " ", "a">>,
      <<"-", " ", "[", " ", "]", " ", "a", " ">>,
      <<"-", " ", "[", "X", "]", " ", "a">>,
      <<"-", " ", "[", "x", "]", " ", "b">>,
      <<" ", "-", " ", " ", "[", " ", "]", " ", " ", "a">>,
      <<"-", "[", " ", "]", "a", ".", "b">>,
      <<"-", " ", "[", " ", "]", " ", "a", "x", "b">>,
      <<"-", " ", "[", " ", "]">>,
      <<"-", " ", "[", " ", "]", " ", " ">>,
      <<"-">>,
      <<"[", " ", "]", " ", "a">>,
      <<"a">>,
      <<>> }

RECURSIVE LinesOfLen(_)
LinesOfLen(n) ==
    IF n = 0 THEN { <<>> }
    ELSE { <<l>> \o rest : l \in LedgerLines, rest \in LinesOfLen(n - 1) }

\* the ledgers: no file, and every file of 1..MaxLedgerLines of those lines
Ledgers == { NoFile } \cup UNION { { File(ls) : ls \in LinesOfLen(n) } : n \in 1..MaxLedgerLines }

\* the task texts asked for
TaskTexts == { <<"a">>, <<"a", ".", "b">>, <<>> }

InitLedger ==
    /\ claude_md = TRUE
    /\ tasks_md \in Ledgers
    /\ has_git = FALSE
    /\ dirs = [k \in DirKeys |-> NoDir]
    /\ procs = {}
    /\ writes = 0
    /\ num_lanes = 1
    /\ max_rounds = 0
    /\ pc = "parse"
    /\ round_num = 0
    /\ tasks = <<>>
    /\ tasks_this_round = <<>>
    /\ lane_num = 0
    /\ rounds_completed = 0
    /\ validation = NoValidation
    /\ polls = 0
    /\ \E t \in TaskTexts :
          analysis = [done |-> FALSE, task_text |-> t, before |-> tasks_md,
                      ret |-> FALSE, written |-> FALSE,
                      marked |-> tasks_md, again |-> FALSE, written_again |-> FALSE]
    /\ trace = <<>>

\* parse_tasks and get_incomplete_tasks on the ledger
ParseLedger ==
    /\ pc \in {"parse", "parse_marked"}
    /\ tasks' = parse_tasks(tasks_md)
    /\ tasks_this_round' = get_incomplete_tasks(tasks_md)
    /\ pc' = IF pc = "parse" THEN "mark" ELSE "mark_again"
    /\ UNCHANGED <<project, dirs, procs, writes, num_lanes, max_rounds, round_num,
                   lane_num, rounds_completed, validation, polls, analysis, trace>>

\* mark_task_complete(file, task_text)
MarkTask ==
    /\ pc = "mark"
    /\ LET r == mark_task_complete(tasks_md, analysis.task_text) IN
         /\ tasks_md' = r.file
         /\ analysis' = [analysis EXCEPT !.ret = r.ret, !.written = r.written,
                                         !.marked = r.file]
    /\ pc' = "parse_marked"
    /\ UNCHANGED <<claude_md, has_git, dirs, procs, writes, sched_but_analysis, trace>>

\* mark_task_complete(file, task_text) once more
MarkAgain ==
    /\ pc = "mark_again"
    /\ LET r == mark_task_complete(tasks_md, analysis.task_text) IN
         /\ tasks_md' = r.file
         /\ analysis' = [analysis EXCEPT !.again = r.ret, !.written_again = r.written]
    /\ pc' = "marked_twice"
    /\ UNCHANGED <<claude_md, has_git, dirs, procs, writes, sched_but_analysis, trace>>

NextLedger == ParseLedger \/ MarkTask \/ MarkAgain

SpecLedger == InitLedger /\ [][NextLedger]_vars

\* ---------------------------------------------------- the analysis alone

\* what a directory of AGENT_DIR may hold when the analysis runs: nothing to
\* find, a full handoff, a handoff of 50 bytes, a log with an error
SnapshotDirs ==
    { NoDir,
      StaleDir,
      [StaleDir EXCEPT !.handoff_size = MinHandoffSize],
      [NoDir EXCEPT !.present = TRUE, !.worker_md = TRUE, !.log = TRUE,
                    !.log_text = <<"E", "r", "r", "o", "r">>] }

\* the first MaxSnapshotDirs directories, in the order of the glob
SnapshotKeys == {KeyAt(i) : i \in 1..MaxSnapshotDirs}

\* the ledgers the analysis counts in: none, an unchecked task, a checked one
\* (x and X), and a checked one that the literal count does not see
AnalyzeLedgers ==
    { NoFile,
      File(<< TaskLine(" ", 1) >>),
      File(<< TaskLine("x", 1) >>),
      File(<< TaskLine("X", 1), TaskLine(" ", 2) >>),
      File(<< <<"-", "[", "x", "]", " ", "a">> >>) }

InitAnalyze ==
    /\ claude_md = TRUE
    /\ tasks_md \in AnalyzeLedgers
    /\ has_git = FALSE
    /\ \E snap \in [SnapshotKeys -> SnapshotDirs] :
          dirs = [k \in DirKeys |-> IF k \in SnapshotKeys THEN snap[k] ELSE NoDir]
    /\ procs = {}
    /\ writes = 0
    /\ num_lanes = 1
    /\ max_rounds = 0
    /\ pc = "analyze_snapshot"
    /\ round_num = 0
    /\ tasks = <<>>
    /\ tasks_this_round = <<>>
    /\ lane_num = 0
    /\ rounds_completed = 0
    /\ validation = NoValidation
    /\ polls = 0
    /\ analysis = NoAnalysis
    /\ trace = <<>>

\* analyze_run on the snapshot
AnalyzeSnapshot ==
    /\ pc = "analyze_snapshot"
    /\ \E duration \in Durations :
          analysis' = analyze_run(dirs, tasks_md, rounds_completed, duration)
    /\ pc' = "analyzed"
    /\ UNCHANGED <<project, dirs, procs, writes, sched_but_analysis, trace>>

NextAnalyze == AnalyzeSnapshot

SpecAnalyze == InitAnalyze /\ [][NextAnalyze]_vars

\* ---------------------------------------------------- the patterns alone

\* the metrics _detect_patterns may be given: up to MaxWorkers workers split
\* into completed, failed and timeout, a ledger count, a duration
PatternMetrics ==
    { [total_workers |-> c + f + t, completed |-> c, failed |-> f, timeout |-> t,
       success_rate |-> IF c + f + t > 0
                        THEN [num |-> c * 100, den |-> c + f + t]
                        ELSE [num |-> 0, den |-> 1],
       duration_minutes |-> d, has_task_counts |-> TRUE,
       tasks_completed |-> tc, tasks_pending |-> 0] :
         c \in 0..MaxWorkers, f \in 0..MaxWorkers, t \in 0..MaxWorkers,
         tc \in 0..1, d \in Durations }

InitPatterns ==
    /\ claude_md = TRUE
    /\ tasks_md = NoFile
    /\ has_git = FALSE
    /\ dirs = [k \in DirKeys |-> NoDir]
    /\ procs = {}
    /\ writes = 0
    /\ num_lanes = 1
    /\ max_rounds = 0
    /\ pc = "detect"
    /\ round_num = 0
    /\ tasks = <<>>
    /\ tasks_this_round = <<>>
    /\ lane_num = 0
    /\ rounds_completed = 0
    /\ validation = NoValidation
    /\ polls = 0
    /\ \E m \in PatternMetrics :
          /\ m.total_workers <= MaxWorkers
          /\ analysis = [done |-> FALSE, metrics |-> m, patterns |-> <<>>,
                         improvements |-> <<>>]
    /\ trace = <<>>

\* analyze_run, line 509: _detect_patterns on the metrics
DetectPatterns ==
    /\ pc = "detect"
    /\ analysis' = [analysis EXCEPT !.patterns = _detect_patterns(<<>>, analysis.metrics)]
    /\ pc' = "detected"
    /\ UNCHANGED <<project, dirs, procs, writes, sched_but_analysis, trace>>

\* analyze_run, line 512: _generate_improvements on the patterns
GenerateImprovements ==
    /\ pc = "detected"
    /\ analysis' = [analysis EXCEPT
                      !.improvements = _generate_improvements(analysis.patterns)]
    /\ pc' = "improved"
    /\ UNCHANGED <<project, dirs, procs, writes, sched_but_analysis, trace>>

NextPatterns == DetectPatterns \/ GenerateImprovements

SpecPatterns == InitPatterns /\ [][NextPatterns]_vars

\* ------------------------------------------------------- reading the trace

Idx == 1..Len(trace)
IsEv(i, e) == trace[i].ev = e
\* the Worker-Launch calls of round r
Spawns(r) == {i \in Idx : IsEv(i, "spawn") /\ trace[i].round = r}
\* the ledger reads of round r
Reads(r) == {i \in Idx : IsEv(i, "read") /\ trace[i].round = r}
\* the returns of the wait of round r
Waits(r) == {i \in Idx : IsEv(i, "wait") /\ trace[i].round = r}
Validations == {i \in Idx : IsEv(i, "validate")}
Min(a, b) == IF a < b THEN a ELSE b
\* the spawn loop of round r is over
SpawnLoopOver(r) == ~(pc = "spawn" /\ round_num = r)

\* ------------------------------------------------------------------ claims

\* C1: in every EXECUTE round, with num_lanes = k >= 1 and p incomplete tasks
\* read at the start of the round, the scheduler makes exactly min(k, p)
\* launches, on lanes 1..min(k, p) in that order, and lane i gets the text of
\* the i-th incomplete task of the ledger as read.
C1_LaneAssignment ==
    \A r \in 1..MaxRounds : \A i \in Reads(r) :
        LET p == Len(trace[i].tasks)
            lanes == {trace[j].lane : j \in Spawns(r)}
        IN  num_lanes >= 1 =>
            /\ Cardinality(Spawns(r)) = Cardinality(lanes)
            /\ \A j \in Spawns(r) :
                  /\ j > i
                  /\ trace[j].lane \in 1..Min(num_lanes, p)
                  /\ trace[j].task = trace[i].tasks[trace[j].lane].task
                  /\ \A j2 \in Spawns(r) :
                        j < j2 => trace[j].lane < trace[j2].lane
            /\ IF SpawnLoopOver(r)
               THEN lanes = 1..Min(num_lanes, p)
               ELSE lanes = 1..(lane_num - 1)

\* a round found three pending tasks and launched two workers, another round
\* found fewer tasks than lanes
C1_Witness ==
    /\ num_lanes = 2
    /\ pc = "wait"
    /\ round_num = 2
    /\ \E i \in Reads(1) : Len(trace[i].tasks) = 3
    /\ \E i \in Reads(2) : Len(trace[i].tasks) = 1
    /\ Cardinality(Spawns(1)) = 2
    /\ Cardinality(Spawns(2)) = 1

\* C2: once the ledger read at the start of a round shows no incomplete task,
\* no worker is launched in that round or later and no further round is read;
\* the run goes to the final checkpoint and then the analysis, whatever
\* max_rounds is.
C2_EmptyLedgerStops ==
    \A i \in Idx :
        (IsEv(i, "read") /\ trace[i].n = 0) =>
            /\ \A j \in Idx : j > i => trace[j].ev \notin {"spawn", "read", "wait", "delay"}
            /\ i + 1 <= Len(trace) =>
                  IsEv(i + 1, "checkpoint") /\ trace[i + 1].task = <<"final">>
            /\ i + 2 <= Len(trace) => IsEv(i + 2, "analyze")
            /\ Len(trace) <= i + 2
            /\ pc = CASE Len(trace) = i -> "final_checkpoint"
                      [] Len(trace) = i + 1 -> "analyze"
                      [] OTHER -> "done"
            /\ (pc = "done" => analysis.done)
            /\ (pc # "done" => ENABLED Scheduler)

\* the first round found the ledger empty with rounds to spare, and the run
\* has reached the analysis
C2_Witness ==
    /\ pc = "done"
    /\ max_rounds = 2
    /\ \E i \in Reads(2) : trace[i].n = 0
    /\ Spawns(1) # {}
    /\ Spawns(2) = {}

\* C3: rounds are strictly sequential: a launch of round N+1 and the ledger read
\* of round N+1 come only after the wait of round N has returned, and the wait
\* of round N returns only after the launches of round N.
C3_RoundsSequential ==
    \A j \in Idx :
        (trace[j].ev \in {"read", "spawn"} /\ trace[j].round >= 2) =>
            \E w \in Waits(trace[j].round - 1) :
                /\ w < j
                /\ \A k \in Spawns(trace[j].round - 1) : k < w

\* round 2 launched a worker after the wait of round 1 timed out
C3_Witness ==
    /\ Spawns(2) # {}
    /\ \E w \in Waits(1) : ~trace[w].ok /\ trace[w].missing # {}

\* a step in which wait_for_workers returns True
WaitReturnsTrue ==
    /\ pc \in {"setup_wait", "wait"}
    /\ pc' = AfterWait
    /\ Len(trace') = Len(trace) + 1
    /\ trace'[Len(trace')].ok

TimedOutLanes ==
    UNION { { <<trace[w].round, l>> : l \in trace[w].missing } :
              w \in {i \in Idx : IsEv(i, "wait") /\ ~trace[i].ok} }

\* the status the analysis gave directory k
StatusOf(k) ==
    LET i == CHOOSE i \in 1..Len(analysis.workers) : analysis.workers[i].dir = k
    IN analysis.workers[i].status

\* C5 as stated: a lane without a handoff when its round's timeout fired is not
\* counted as complete by the analysis of that run.
C5_Original ==
    pc = "done" => \A k \in TimedOutLanes : StatusOf(k) # "complete"

\* C5, amended: such a lane is counted as complete exactly when a handoff
\* larger than 50 bytes is in its directory at the analysis; nothing is kept
\* from the timeout.
C5_StatusAtAnalysis ==
    pc = "done" =>
        \A k \in TimedOutLanes :
            StatusOf(k) = "complete"
                <=> (dirs[k].handoff /\ dirs[k].handoff_size > MinHandoffSize)

\* a lane timed out in round 1 and the analysis counts it complete, another
\* timed out and is not
C5_Witness ==
    /\ pc = "done"
    /\ \E k \in TimedOutLanes : StatusOf(k) = "complete"
    /\ \E k \in TimedOutLanes : StatusOf(k) # "complete"

\* pat in text.lower(), written out
Mentions(text, word) ==
    \E i \in 1..Len(text) :
        /\ i + Len(word) - 1 <= Len(text)
        /\ \A j \in 1..Len(word) : LowerChar(text[i + j - 1]) = word[j]

\* C6: the classifier's rules, in order: complete iff the handoff exists and has
\* more than 50 bytes (whatever the log says); otherwise failed iff a log exists
\* and mentions error or failed in any case; otherwise timeout. A handoff of 49
\* or 50 bytes without a log is a timeout, and a second classification of the
\* same snapshot gives the same status.
C6_ClassifierRules ==
    pc \in {"classified", "classified_twice"} =>
        LET d == dirs[Probe]
            big == d.handoff /\ d.handoff_size > 50
            bad == d.log /\ (Mentions(d.log_text, ErrorWord)
                             \/ Mentions(d.log_text, FailedWord))
        IN  /\ analysis.status \in {"complete", "failed", "timeout"}
            /\ analysis.status = "complete" <=> big
            /\ analysis.status = "failed" <=> (~big /\ bad)
            /\ analysis.status = "timeout" <=> (~big /\ ~bad)
            /\ (d.handoff /\ d.handoff_size \in {49, 50} /\ ~d.log)
                  => analysis.status = "timeout"
            /\ pc = "classified_twice" => analysis.again = analysis.status

\* a 50-byte handoff without a log has been classified, twice
C6_Witness ==
    /\ pc = "classified_twice"
    /\ dirs[Probe].handoff
    /\ dirs[Probe].handoff_size = 50
    /\ ~dirs[Probe].log
    /\ analysis.status = "timeout"

\* a large handoff beside a log that mentions an error has been classified
C6_WitnessCompleteWins ==
    /\ pc = "classified"
    /\ dirs[Probe].handoff_size = 51
    /\ dirs[Probe].log_text = <<"E", "r", "r", "o", "r">>
    /\ analysis.status = "complete"

\* the number of incomplete tasks read at the start of round 1
TasksAtStart == IF Reads(1) = {} THEN 0 ELSE trace[CHOOSE i \in Reads(1) : TRUE].n

\* line i of the ledger holds a checked box
Checked(i) ==
    /\ tasks_md.exists
    /\ i \in 1..Len(tasks_md.lines)
    /\ MatchCheckbox(tasks_md.lines[i]).matched
    /\ MatchCheckbox(tasks_md.lines[i]).mark # " "

\* the clean run of n tasks is over: the project was ready, the agent directory
\* was empty, one lane, max_rounds >= n, and in each of the rounds 1..n the
\* worker started, left a handoff of at least minsize bytes and checked its box
\* before the ledger was read again
CleanRun(n, minsize) ==
    /\ pc = "done"
    /\ trace[1].n = 0
    /\ IsEv(2, "validate") /\ trace[2].ok
    /\ num_lanes = 1
    /\ n >= 1
    /\ max_rounds >= n
    /\ \A r \in 1..n :
          /\ Reads(r) # {}
          /\ \E j \in Spawns(r) :
                /\ trace[j].ok
                /\ trace[j].lane = 1
                /\ dirs[<<r, 1>>].handoff
                /\ dirs[<<r, 1>>].handoff_size >= minsize
                /\ Checked(trace[j].line)
                /\ \A i \in Idx :
                      (i > j /\ IsEv(i, "read")) =>
                          \A t \in 1..Len(trace[i].tasks) :
                              trace[i].tasks[t].line_num # trace[j].line

\* what the clean run of n tasks ends in
CleanOutcome(n) ==
    /\ get_incomplete_tasks(tasks_md) = <<>>
    /\ analysis.rounds_completed = n
    /\ analysis.metrics.total_workers = n
    /\ analysis.metrics.completed = n
    /\ analysis.metrics.failed = 0
    /\ analysis.metrics.timeout = 0
    /\ analysis.metrics.success_rate.num = 100 * analysis.metrics.success_rate.den

\* C7 as stated: after a clean run of n tasks in which every worker wrote a
\* handoff of at least 50 bytes, no task is incomplete and the metrics show
\* completed = n, failed = 0, timeout = 0 and a success rate of 100.
C7_Original ==
    CleanRun(TasksAtStart, MinHandoffSize) => CleanOutcome(TasksAtStart)

\* C7, amended: the same with handoffs of more than 50 bytes.
C7_CleanRun ==
    CleanRun(TasksAtStart, MinHandoffSize + 1) => CleanOutcome(TasksAtStart)

\* a clean run of two tasks is over
C7_Witness ==
    /\ TasksAtStart = 2
    /\ CleanRun(2, MinHandoffSize + 1)
    /\ analysis.metrics.completed = 2

\* directory k holds the instruction artifact and nothing else
OnlyInstruction(k) ==
    dirs[k].present /\ dirs[k].worker_md /\ ~dirs[k].handoff /\ ~dirs[k].log

\* C8: a task launched in round r whose line is still among the incomplete
\* tasks read for round r+1 is launched again in round r+1, on a lane not
\* greater than its lane of round r; and a launched lane whose directory holds
\* only the instruction artifact is classified timeout by the analysis.
C8_StalledWorker ==
    /\ \A r \in 1..MaxRounds : \A j \in Spawns(r) : \A i \in Reads(r + 1) :
          ( /\ num_lanes >= 1
            /\ SpawnLoopOver(r + 1)
            /\ \E t \in 1..Len(trace[i].tasks) :
                  trace[i].tasks[t].line_num = trace[j].line )
          => \E j2 \in Spawns(r + 1) :
                /\ trace[j2].line = trace[j].line
                /\ trace[j2].task = trace[j].task
                /\ trace[j2].lane <= trace[j].lane
    /\ pc = "done" =>
          \A j \in Idx :
              (IsEv(j, "spawn") /\ OnlyInstruction(<<trace[j].round, trace[j].lane>>))
                  => StatusOf(<<trace[j].round, trace[j].lane>>) = "timeout"

\* the worker of round 1 lane 2 stalled, its task went to lane 1 of round 2, and
\* the analysis classified the stalled lane timeout
C8_Witness ==
    /\ pc = "done"
    /\ OnlyInstruction(<<1, 2>>)
    /\ StatusOf(<<1, 2>>) = "timeout"
    /\ \E j \in Spawns(1) : \E j2 \in Spawns(2) :
          /\ trace[j].lane = 2
          /\ trace[j2].lane = 1
          /\ trace[j2].line = trace[j].line

\* the project as validate_project judges it: CLAUDE.md, TASKS.md, and "- [ ]"
\* somewhere in TASKS.md
ReadyNow ==
    /\ claude_md
    /\ tasks_md.exists
    /\ \E i \in 1..Len(tasks_md.lines) : \E c \in 1..Len(tasks_md.lines[i]) :
          /\ c + 4 <= Len(tasks_md.lines[i])
          /\ tasks_md.lines[i][c] = "-"
          /\ tasks_md.lines[i][c + 1] = " "
          /\ tasks_md.lines[i][c + 2] = "["
          /\ tasks_md.lines[i][c + 3] = " "
          /\ tasks_md.lines[i][c + 4] = "]"

\* the SETUP phase has been entered
SetupEntered == pc = "setup_spawn" \/ Spawns(0) # {}

\* C9: SETUP is entered iff the initial validation reports the project not
\* ready, which it does iff CLAUDE.md is missing, TASKS.md is missing or
\* TASKS.md holds no pending box; SETUP launches exactly one worker, round 0
\* lane 1 with the setup task, and every other launch comes after a validation
\* that passed.
C9_SetupPhase ==
    /\ pc = "validate" => ~SetupEntered
    /\ Len(trace) = 2 => (IsEv(2, "validate") /\ (trace[2].ok <=> ReadyNow))
    /\ pc # "validate" => (SetupEntered <=> ~trace[2].ok)
    /\ Cardinality(Spawns(0)) <= 1
    /\ (SetupEntered /\ pc # "setup_spawn") => Cardinality(Spawns(0)) = 1
    /\ \A j \in Spawns(0) :
          j = 3 /\ trace[j].lane = 1 /\ trace[j].task = SetupTask
    /\ \A j \in Idx :
          (IsEv(j, "spawn") /\ trace[j].round # 0) =>
              \E v \in Validations :
                  /\ v < j
                  /\ trace[v].ok
                  /\ \A s \in Spawns(0) : s < v /\ v > 2

\* the setup worker ran, the project passed the second validation and a worker
\* of round 1 was launched
C9_Witness ==
    /\ Spawns(0) # {}
    /\ Spawns(1) # {}
    /\ ~trace[2].ok

\* the validation after the setup wait failed
SetupFailed == \E v \in Validations : v > 2 /\ ~trace[v].ok

\* C10: when the validation after the setup wait fails, the run is over: that
\* validation is the last thing that happens, no round is run, no worker of a
\* round >= 1 is launched, no checkpoint is taken, the analysis is not run, the
\* setup worker was launched once, and the scheduler takes no further step.
C10_SetupFailureIsTerminal ==
    SetupFailed =>
        /\ pc = "aborted"
        /\ IsEv(Len(trace), "validate")
        /\ \A i \in Idx : trace[i].ev \notin {"read", "checkpoint", "analyze",
                                              "delay"}
        /\ \A i \in Idx : IsEv(i, "spawn") => (trace[i].round = 0 /\ trace[i].lane = 1)
        /\ Cardinality(Spawns(0)) = 1
        /\ round_num = 0
        /\ rounds_completed = 0
        /\ ~analysis.done
        /\ ~ENABLED Scheduler

\* the run has aborted after a setup worker that wrote its handoff but left
\* the project not ready
C10_Witness ==
    /\ pc = "aborted"
    /\ SetupFailed
    /\ dirs[<<0, 1>>].handoff

\* the events of the EXECUTE phase
ExecuteEvents ==
    {j \in Idx : \/ trace[j].ev \in {"read", "checkpoint", "delay"}
                 \/ trace[j].ev \in {"spawn", "wait"} /\ trace[j].round >= 1}

\* the setup wait returned False: no handoff of the setup worker within the timeout
SetupTimedOut == \E w \in Waits(0) : ~trace[w].ok

\* C11 as stated: when the setup timeout elapses, the run aborts and no EXECUTE
\* round runs.
C11_Original ==
    SetupTimedOut => (Reads(1) = {} /\ Spawns(1) = {} /\ pc # "round_start")

\* C11, amended: after the setup worker was launched, nothing of EXECUTE happens
\* before the setup wait has returned (by handoff or by timeout) and a
\* validation after it has passed; when the setup wait has timed out, the run
\* aborts exactly if that validation fails, and goes on to EXECUTE if it passes.
C11_SetupLoop ==
    /\ \A s \in Spawns(0) : \A j \in ExecuteEvents :
          \E w \in Waits(0) : \E v \in Validations :
              s < w /\ w < v /\ v < j /\ trace[v].ok
    /\ \A s \in Spawns(0) :
          pc \in {"setup_wait", "revalidate"} => ExecuteEvents = {}
    /\ \A w \in Waits(0) : \A v \in Validations :
          (~trace[w].ok /\ v > w) =>
              IF trace[v].ok
              THEN pc \notin {"aborted", "setup_wait", "revalidate"}
              ELSE pc = "aborted" /\ ExecuteEvents = {}

\* the setup wait timed out, the project was ready all the same, and a worker
\* of round 1 was launched
C11_Witness ==
    /\ SetupTimedOut
    /\ ~dirs[<<0, 1>>].handoff
    /\ Spawns(1) # {}

\* the analyses run so far
Analyses == {i \in Idx : IsEv(i, "analyze")}

\* C12: the analysis runs at most once; when it runs, every read, launch,
\* wait, delay and checkpoint is before it, the final checkpoint immediately
\* before it, and EXECUTE has ended by an empty ledger or by max_rounds rounds;
\* a run that is over has run it once, except a run aborted by SETUP, which
\* never runs it; the final checkpoint can always be taken once EXECUTE has
\* ended, and after the analysis or the abort the scheduler has no step left.
C12_AnalyzeOnce ==
    /\ Cardinality(Analyses) <= 1
    /\ \A a \in Analyses :
          /\ a = Len(trace)
          /\ IsEv(a - 1, "checkpoint") /\ trace[a - 1].task = <<"final">>
          /\ \/ \E i \in Idx : IsEv(i, "read") /\ trace[i].n = 0
                                /\ trace[i].round = round_num
             \/ round_num = max_rounds /\ (max_rounds >= 1 => Waits(max_rounds) # {})
    /\ (Analyses # {}) <=> pc = "done"
    /\ analysis.done <=> pc = "done"
    /\ SetupFailed => Analyses = {}
    /\ pc = "aborted" => SetupFailed
    /\ pc = "final_checkpoint" => ENABLED FinalCheckpoint
    /\ pc \in {"done", "aborted"} => ~ENABLED Scheduler

\* a run of two rounds that ended by exhausting max_rounds has been analysed
C12_Witness ==
    /\ pc = "done"
    /\ max_rounds = 2
    /\ Waits(2) # {}
    /\ Cardinality(Analyses) = 1
    /\ \A i \in Idx : IsEv(i, "read") => trace[i].n > 0

\* the lines of the ledger before the first mark_task_complete that parse as
\* unchecked tasks with the text asked for
PendingBefore == PendingLines(analysis.before, analysis.task_text)

\* the lines the first mark_task_complete changed
Changed ==
    {i \in 1..Len(analysis.before.lines) :
        \/ i > Len(analysis.marked.lines)
        \/ analysis.marked.lines[i] # analysis.before.lines[i]}

\* C13 as stated: when several unchecked lines carry the text t,
\* mark_task_complete checks the first of them and leaves the others unchecked.
C13_Original ==
    (pc = "parse_marked" /\ Cardinality(PendingBefore) >= 2) =>
        LET first == CHOOSE i \in PendingBefore : \A j \in PendingBefore : i <= j
        IN  /\ analysis.ret
            /\ PendingLines(analysis.marked, analysis.task_text)
                 = PendingBefore \ {first}

\* C14 as stated: when exactly one unchecked line has the task text t,
\* mark_task_complete returns True, the parse of the result has t completed at
\* that line number, and every other line is unchanged.
C14_Original ==
    (pc = "mark_again" /\ Cardinality(PendingBefore) = 1) =>
        LET i == CHOOSE i \in PendingBefore : TRUE
        IN  /\ analysis.ret
            /\ \E k \in 1..Len(tasks) :
                  tasks[k] = [task |-> analysis.task_text, completed |-> TRUE,
                              line_num |-> i]
            /\ Len(analysis.marked.lines) = Len(analysis.before.lines)
            /\ Changed \subseteq {i}

UncheckedWith(line, t) ==
    LET dash == SkipSpaces(line, 1)
        open == SkipSpaces(line, dash + 1)
    IN  /\ dash <= Len(line)
        /\ line[dash] = "-"
        /\ OccursAt(line, <<"[", " ", "]">>, open)
        /\ Strip(SubSeq(line, open + 3, Len(line))) = Strip(t)

\* C16 as stated: when the ledger is absent or no unchecked line has the
\* content t, mark_task_complete returns False and does not write the ledger.
C16_Original ==
    ( /\ pc = "parse_marked"
      /\ \/ ~analysis.before.exists
         \/ \A i \in 1..Len(analysis.before.lines) :
               ~UncheckedWith(analysis.before.lines[i], analysis.task_text) )
    => (~analysis.ret /\ ~analysis.written /\ analysis.marked = analysis.before)

\* the file the last ParseLedger read
Parsed == IF pc \in {"mark", "parse_marked"} THEN analysis.before ELSE analysis.marked

\* the checkbox grammar: whitespace, a dash, whitespace, [ ], [x] or [X], and
\* at least one more character
IsTaskLine(line) ==
    \E d \in 1..Len(line) : \E o \in 1..Len(line) :
        /\ \A k \in 1..(d - 1) : line[k] \in {" ", "\t"}
        /\ line[d] = "-"
        /\ d < o
        /\ \A k \in (d + 1)..(o - 1) : line[k] \in {" ", "\t"}
        /\ line[o] = "["
        /\ o + 3 <= Len(line)
        /\ line[o + 1] \in {" ", "x", "X"}
        /\ line[o + 2] = "]"

\* where the box of a task line opens
BoxAt(line) == CHOOSE o \in 1..Len(line) : line[o] = "[" /\ \A k \in 1..(o - 1) : line[k] # "["

\* C17: parse_tasks gives one task per line of the checkbox grammar and none
\* for the other lines, in file order with the 1-based line numbers, completed
\* exactly for [x] and [X], the text being what follows the box, stripped;
\* get_incomplete_tasks is the subsequence of those not completed.
C17_Parse ==
    pc # "parse" =>
        LET lines == IF Parsed.exists THEN Parsed.lines ELSE <<>>
            task_lines == {i \in 1..Len(lines) : IsTaskLine(lines[i])}
        IN  /\ Len(tasks) = Cardinality(task_lines)
            /\ {tasks[k].line_num : k \in 1..Len(tasks)} = task_lines
            /\ \A k \in 1..Len(tasks) : \A k2 \in 1..Len(tasks) :
                  k < k2 => tasks[k].line_num < tasks[k2].line_num
            /\ \A k \in 1..Len(tasks) :
                  LET line == lines[tasks[k].line_num]
                      o == BoxAt(line)
                  IN  /\ tasks[k].completed <=> line[o + 1] \in {"x", "X"}
                      /\ tasks[k].task = Strip(SubSeq(line, o + 3, Len(line)))
            /\ tasks_this_round = SelectSeq(tasks, LAMBDA t : ~t.completed)

\* a ledger of three lines was parsed: a checked task, a line that is no task,
\* and an unchecked task on line 3
C17_Witness ==
    /\ pc = "mark"
    /\ Len(analysis.before.lines) = 3
    /\ Len(tasks) = 2
    /\ tasks[1].completed
    /\ tasks[2].line_num = 3
    /\ tasks_this_round = <<tasks[2]>>

\* the analysis reported a pattern of this type, with this severity
Emitted(type, severity) ==
    \E i \in 1..Len(analysis.patterns) :
        analysis.patterns[i] = [type |-> type, severity |-> severity]

\* how many patterns of this type the analysis reported
TimesEmitted(type) ==
    Cardinality({i \in 1..Len(analysis.patterns) : analysis.patterns[i].type = type})

\* C18: the high-failure-rate pattern is emitted, with severity high, iff there
\* are workers and failed plus timed-out workers are strictly more than 30% of
\* them: with 10 workers it is emitted for 4 and not for 2 or 3, and never with
\* no worker.
C18_HighFailureRate ==
    pc \in {"detected", "improved"} =>
        LET m == analysis.metrics
            bad == m.failed + m.timeout
        IN  /\ Emitted("high_failure_rate", "high")
                <=> (m.total_workers > 0 /\ 100 * bad > 30 * m.total_workers)
            /\ TimesEmitted("high_failure_rate") <= 1
            /\ TimesEmitted("high_failure_rate") = 1
                  => Emitted("high_failure_rate", "high")
            /\ (m.total_workers = 10 /\ bad = 4) => Emitted("high_failure_rate", "high")
            /\ (m.total_workers = 10 /\ bad \in {2, 3})
                  => TimesEmitted("high_failure_rate") = 0
            /\ m.total_workers = 0 => TimesEmitted("high_failure_rate") = 0

\* 10 workers, 3 of them failed or timed out: no high-failure-rate pattern
C18_Witness ==
    /\ pc = "detected"
    /\ analysis.metrics.total_workers = 10
    /\ analysis.metrics.failed + analysis.metrics.timeout = 3
    /\ analysis.metrics.failed = 1
    /\ TimesEmitted("high_failure_rate") = 0

\* the directories the classifier calls complete
CompleteDirs ==
    {k \in DirKeys : dirs[k].present /\ dirs[k].handoff
                     /\ dirs[k].handoff_size > MinHandoffSize}

\* "- [x]" or "- [X]" somewhere in the ledger
HasDoneBox ==
    /\ tasks_md.exists
    /\ \E i \in 1..Len(tasks_md.lines) : \E c \in 1..Len(tasks_md.lines[i]) :
          LET line == tasks_md.lines[i] IN
          /\ c + 4 <= Len(line)
          /\ line[c] = "-" /\ line[c + 1] = " " /\ line[c + 2] = "["
          /\ line[c + 3] \in {"x", "X"} /\ line[c + 4] = "]"

\* C19: the tasks-not-marked pattern is emitted, with severity medium, iff the
\* ledger's literal count of checked boxes is 0 (a missing ledger counts 0) and
\* at least one worker is classified complete.
C19_TasksNotMarked ==
    pc = "analyzed" =>
        /\ Emitted("tasks_not_marked", "medium")
              <=> (~HasDoneBox /\ CompleteDirs # {})
        /\ TimesEmitted("tasks_not_marked") <= 1
        /\ TimesEmitted("tasks_not_marked") = 1
              => Emitted("tasks_not_marked", "medium")
        /\ analysis.metrics.tasks_completed = 0 <=> ~HasDoneBox
        /\ analysis.metrics.completed = Cardinality(CompleteDirs)

\* the ledger is missing, a worker is complete, and the pattern is emitted
C19_Witness ==
    /\ pc = "analyzed"
    /\ ~tasks_md.exists
    /\ Cardinality(CompleteDirs) = 1
    /\ Emitted("tasks_not_marked", "medium")

RuleRank(type) ==
    CASE type = "high_failure_rate" -> 1
      [] type = "tasks_not_marked" -> 2
      [] type = "shallow_work" -> 3
      [] OTHER -> 0

\* the types of the reported patterns, as a set
EmittedTypes == {analysis.patterns[i].type : i \in 1..Len(analysis.patterns)}

\* C21: the three pattern rules are evaluated independently: each is emitted
\* iff its own condition holds, whatever the other two do, each at most once
\* and in the order of the rules; the improvements have the length and the
\* order of the patterns, and the i-th improvement is P0 iff the i-th pattern
\* has severity high, P1 otherwise.
C21_PatternsAndImprovements ==
    /\ pc \in {"detected", "improved"} =>
          LET m == analysis.metrics
              ps == analysis.patterns
          IN  /\ ("high_failure_rate" \in EmittedTypes)
                    <=> (m.total_workers > 0
                         /\ 10 * (m.failed + m.timeout) > 3 * m.total_workers)
              /\ ("tasks_not_marked" \in EmittedTypes)
                    <=> (m.tasks_completed = 0 /\ m.completed > 0)
              /\ ("shallow_work" \in EmittedTypes)
                    <=> (m.completed > 2 /\ m.duration_minutes < 2)
              /\ \A i \in 1..Len(ps) : RuleRank(ps[i].type) > 0
              /\ \A i, j \in 1..Len(ps) :
                    i < j => RuleRank(ps[i].type) < RuleRank(ps[j].type)
    /\ pc = "improved" =>
          LET ps == analysis.patterns
              is == analysis.improvements
          IN  /\ Len(is) = Len(ps)
              /\ \A i \in 1..Len(ps) :
                    /\ is[i].title = ps[i].type
                    /\ is[i].priority \in {"P0", "P1"}
                    /\ is[i].priority = "P0" <=> ps[i].severity = "high"

\* two medium patterns and no high one: both improvements are P1
C21_Witness ==
    /\ pc = "improved"
    /\ EmittedTypes = {"tasks_not_marked", "shallow_work"}
    /\ Len(analysis.improvements) = 2
    /\ analysis.improvements[1].priority = "P1"

\* ------------------------------------------------------------------ C22

\* the launches of the EXECUTE rounds that failed
FailedSpawns == {j \in Idx : IsEv(j, "spawn") /\ trace[j].round >= 1 /\ ~trace[j].ok}

\* the scheduler has left round r behind, or is past the given positions of it
RoundPast(r, positions) == round_num > r \/ pc \notin positions

\* C22: a launch that fails in round r aborts neither the round nor the run:
\* the other lanes of round r are launched, the wait of round r is made for
\* every lane of the round, the periodic checkpoint and the delay follow as
\* for any round, round r + 1 is started when r < max_rounds, and the task of
\* the failed lane is launched again in round r + 1 if it is still pending.
C22_LaunchFailure ==
    \A j \in FailedSpawns :
        LET r == trace[j].round
        IN  /\ pc # "aborted"
            /\ \A i \in Reads(r) :
                  LET n == Min(num_lanes, trace[i].n)
                  IN  /\ SpawnLoopOver(r)
                            => {trace[k].lane : k \in Spawns(r)} = 1..n
                      /\ RoundPast(r, {"spawn", "wait"})
                            => \E w \in Waits(r) : w > j /\ trace[w].n = n
            /\ (RoundPast(r, {"spawn", "wait", "end_round"})
                   /\ r % CheckpointEvery = 0)
                  => \E c \in Idx : /\ c > j
                                    /\ IsEv(c, "checkpoint")
                                    /\ trace[c].task = <<"periodic">>
                                    /\ trace[c].round = r
            /\ (RoundPast(r, {"spawn", "wait", "end_round"}) /\ r < max_rounds)
                  => \E d \in Idx : d > j /\ IsEv(d, "delay") /\ trace[d].round = r
            /\ (RoundPast(r, {"spawn", "wait", "end_round", "round_start"})
                   /\ r < max_rounds)
                  => Reads(r + 1) # {}
            /\ \A i \in Reads(r + 1) :
                  ( /\ SpawnLoopOver(r + 1)
                    /\ \E t \in 1..Len(trace[i].tasks) :
                          trace[i].tasks[t].line_num = trace[j].line )
                  => \E j2 \in Spawns(r + 1) :
                        /\ trace[j2].line = trace[j].line
                        /\ trace[j2].task = trace[j].task

\* lane 1 of round 1 failed to launch, lane 2 of round 1 was launched, the
\* round was waited for, and round 2 launched the task of the failed lane again
C22_Witness ==
    /\ pc = "done"
    /\ \E j \in FailedSpawns :
          /\ trace[j].round = 1
          /\ trace[j].lane = 1
          /\ \E k \in Spawns(1) : trace[k].lane = 2 /\ trace[k].ok
          /\ Waits(1) # {}
          /\ \E d \in Idx : IsEv(d, "delay") /\ trace[d].round = 1
          /\ \E j2 \in Spawns(2) : trace[j2].line = trace[j].line

\* ------------------------------------------------------------------ C23

\* every Worker-Launch call of the run, the setup worker's included
AllSpawns == {j \in Idx : IsEv(j, "spawn")}

\* C23: the Lane Assignments of one run have pairwise distinct (round, lane)
\* pairs, so no two of them share an output directory; the directory of each
\* exists and holds WORKER.md from the step that attempts its launch on,
\* whether the launch succeeded or not, and every live worker has one.
C23_DistinctDirectories ==
    /\ \A j, k \in AllSpawns :
          j # k => <<trace[j].round, trace[j].lane>> # <<trace[k].round, trace[k].lane>>
    /\ \A j \in AllSpawns :
          /\ <<trace[j].round, trace[j].lane>> \in DirKeys
          /\ dirs[<<trace[j].round, trace[j].lane>>].present
          /\ dirs[<<trace[j].round, trace[j].lane>>].worker_md
    /\ \A p \in procs :
          /\ dirs[DirOf(p)].present
          /\ dirs[DirOf(p)].worker_md
          /\ \E j \in AllSpawns :
                trace[j].ok /\ <<trace[j].round, trace[j].lane>> = DirOf(p)

\* two rounds of two lanes: four assignments in four directories, one of
\* them of a launch that failed
C23_Witness ==
    /\ pc = "done"
    /\ Cardinality(AllSpawns) = 4
    /\ Cardinality({<<trace[j].round, trace[j].lane>> : j \in AllSpawns}) = 4
    /\ \E j \in AllSpawns : ~trace[j].ok /\ trace[j].lane = 2

\* ------------------------------------------------------------------ C24

\* C24 as stated: total_workers of the analysis is the number of Lane
\* Assignments this run made, the setup worker included, whatever directories
\* the agent output directory held when the run started.
C24_Original ==
    pc = "done" => analysis.metrics.total_workers = Cardinality(AllSpawns)

\* ------------------------------------------------------------------ C25

\* Termination is checked on the runs of two projects, one ready with two
\* pending tasks and one that needs the setup worker, with every lane count
\* and round count, and workers that write in any order or not at all.
TermProjects ==
    { [claude_md |-> TRUE, tasks_md |-> File(AllPending(2))],
      [claude_md |-> FALSE, tasks_md |-> NoFile] }

InitTerm ==
    /\ \E prj \in TermProjects : claude_md = prj.claude_md /\ tasks_md = prj.tasks_md
    /\ dirs = EmptyDirs
    /\ has_git = TRUE
    /\ procs = {}
    /\ writes = 0
    /\ num_lanes \in LaneChoices
    /\ max_rounds \in RoundChoices
    /\ pc = "validate"
    /\ round_num = 0
    /\ tasks = <<>>
    /\ tasks_this_round = <<>>
    /\ lane_num = 0
    /\ rounds_completed = 0
    /\ validation = NoValidation
    /\ polls = 0
    /\ analysis = NoAnalysis
    /\ trace = <<Ev("start", 0)>>

\* every step of the scheduler but the analysis
SchedulerToAnalyze ==
    \/ Validate
    \/ SetupSpawn
    \/ WaitPoll
    \/ WaitTimeout
    \/ Revalidate
    \/ PreRunCheckpoint
    \/ RoundStart
    \/ SpawnLane
    \/ EndRound
    \/ FinalCheckpoint

\* the step from the analysis to the end of the run: Analyze is the only
\* action of Next that takes it, and it can be taken whenever pc = "analyze"
AnalyzeReturns == pc = "analyze" /\ pc' = "done"

\* the scheduler is one sequential program whose sleeps are finite: a step it
\* can take is eventually taken; nothing is assumed of the workers
SpecTerm ==
    InitTerm /\ [][Next]_vars /\ WF_vars(SchedulerToAnalyze) /\ WF_pc(AnalyzeReturns)

\* the waits of the EXECUTE rounds that returned
RoundWaits == {i \in Idx : IsEv(i, "wait") /\ trace[i].round >= 1}

\* C25: every run terminates whatever the workers do: the scheduler
\* eventually reaches the SETUP abort or the end of ANALYZE, and on the way it
\* starts at most max_rounds EXECUTE rounds, one wait each, and makes at most
\* one SETUP wait.
C25_Terminates ==
    /\ <>(pc \in {"done", "aborted"})
    /\ [](/\ round_num <= IF max_rounds > 0 THEN max_rounds ELSE 1
          /\ \A r \in 1..(MaxRounds + 1) : /\ Cardinality(Reads(r)) <= 1
                                           /\ Cardinality(Waits(r)) <= 1
          /\ \A i \in RoundWaits : trace[i].round <= max_rounds
          /\ Cardinality(Waits(0)) <= 1)

\* a run of two rounds whose workers wrote nothing at all: both waits timed
\* out and the analysis was made
C25_Witness ==
    /\ pc = "done"
    /\ writes = 0
    /\ procs # {}
    /\ \E i \in Waits(1) : ~trace[i].ok
    /\ \E i \in Waits(2) : ~trace[i].ok

\* ------------------------------------------------------------------ C26

\* a step in which the scheduler does nothing: its position, its counters and
\* its log are as before, and one more worker write is counted
WorkerStep ==
    /\ pc' = pc
    /\ trace' = trace
    /\ UNCHANGED sched
    /\ writes' = writes + 1

\* C26: the scheduler never writes the Task Ledger: in SETUP, in every
\* EXECUTE round and in ANALYZE the content of TASKS.md changes only in steps
\* of the external workers; the ledger is read once per round, at its start,
\* and every assignment of the round is the task at the lane's position of
\* that snapshot.
C26_LedgerFrame ==
    /\ [][tasks_md' # tasks_md => WorkerStep]_vars
    /\ [](\A r \in 1..(MaxRounds + 1) :
            /\ Cardinality(Reads(r)) <= 1
            /\ \A j \in Spawns(r) :
                  \E i \in Reads(r) :
                      /\ i < j
                      /\ trace[j].lane <= Len(trace[i].tasks)
                      /\ trace[i].tasks[trace[j].lane].task = trace[j].task
                      /\ trace[i].tasks[trace[j].lane].line_num = trace[j].line)

\* a worker of round 1 checked its box: the snapshot of round 2 is shorter
\* than the snapshot of round 1, and round 2 made its assignment from it
C26_Witness ==
    /\ pc = "done"
    /\ \E i \in Reads(1) : \E i2 \in Reads(2) :
          /\ trace[i2].n < trace[i].n
          /\ trace[i2].n >= 1
    /\ Spawns(2) # {}

\* ------------------------------------------------------------------ C27

\* the step is a Worker-Launch call: one spawn event is appended to the log
SpawnStep ==
    /\ Len(trace') = Len(trace) + 1
    /\ trace'[Len(trace')].ev = "spawn"

\* C27: in a lane's output directory the core writes WORKER.md and nothing
\* else: every Worker-Launch call makes the directory of its own (round,
\* lane) exist with WORKER.md in it, leaves the handoff and the log of that
\* directory as they were and leaves every other directory untouched; no
\* other step of the scheduler changes any directory.
C27_DirectoryFrame ==
    [][ /\ SpawnStep =>
            LET e == trace'[Len(trace')]
                k == <<e.round, e.lane>>
            IN  /\ dirs'[k].present /\ dirs'[k].worker_md
                /\ dirs'[k].handoff = dirs[k].handoff
                /\ dirs'[k].handoff_size = dirs[k].handoff_size
                /\ dirs'[k].log = dirs[k].log
                /\ dirs'[k].log_text = dirs[k].log_text
                /\ \A k2 \in DirKeys \ {k} : dirs'[k2] = dirs[k2]
        /\ (dirs' # dirs /\ ~SpawnStep) => WorkerStep ]_vars

\* round 1 lane 1 was launched into a directory an earlier run left with a
\* handoff, and the handoff is still there though no worker has written
C27_Witness ==
    /\ trace[1].n = 1
    /\ writes = 0
    /\ \E j \in Spawns(1) : trace[j].lane = 1
    /\ \E j \in Spawns(1) : trace[j].lane = 2
    /\ dirs[<<1, 1>>].handoff
    /\ dirs[<<1, 1>>].worker_md
    /\ dirs[<<1, 2>>].worker_md /\ ~dirs[<<1, 2>>].handoff

\* ------------------------------------------------------------------ C28

\* the workers that were started and whose round's wait has timed out on them
Overdue ==
    {p \in procs : \E w \in Waits(p.round) : ~trace[w].ok /\ p.lane \in trace[w].missing}

\* C28: the scheduler never ends a worker: no step removes a live worker, so
\* every worker that was started is live for the rest of the run, the ones
\* whose round timed out included, while later rounds launch their own.
C28_NoKill ==
    /\ [][procs \subseteq procs']_vars
    /\ [](\A j \in AllSpawns :
            trace[j].ok =>
                [round |-> trace[j].round, lane |-> trace[j].lane,
                 task |-> trace[j].task] \in procs)

\* the worker of round 1 lane 1 had no handoff when round 1 timed out; round 2
\* launched a second worker for the same line while the first was live, and
\* the first wrote its handoff after that
C28_Witness ==
    \E p \in Overdue :
        /\ p.round = 1
        /\ dirs[DirOf(p)].handoff
        /\ \E j \in Spawns(1) : \E j2 \in Spawns(2) :
              /\ trace[j].lane = p.lane
              /\ trace[j2].line = trace[j].line
              /\ trace[j2].ok
              /\ [round |-> 2, lane |-> trace[j2].lane, task |-> trace[j2].task]
                    \in procs

\* ------------------------------------------------------------------ C30

\* the checkpoints of one kind: "pre-run", "periodic" or "final"
Checkpoints(kind) ==
    {i \in Idx : IsEv(i, "checkpoint") /\ trace[i].task = <<kind>>}

\* what the EXECUTE rounds log: reads, launches, waits, periodic checkpoints
\* and delays
RoundEvents ==
    {i \in Idx :
        \/ (trace[i].ev \in {"read", "spawn", "wait"} /\ trace[i].round >= 1)
        \/ IsEv(i, "delay")
        \/ i \in Checkpoints("periodic")}

\* C30: a run that SETUP does not abort makes one pre-run checkpoint, before
\* the first read and the first launch of round 1, and exactly one final
\* checkpoint, after everything the EXECUTE rounds do and immediately before
\* the analysis, also when the loop stopped early on a ledger with no pending
\* task; an aborted run makes no checkpoint.
C30_BoundaryCheckpoints ==
    /\ Cardinality(Checkpoints("pre-run")) <= 1
    /\ Cardinality(Checkpoints("final")) <= 1
    /\ RoundEvents # {} =>
          \E c \in Checkpoints("pre-run") : \A i \in RoundEvents : c < i
    /\ Checkpoints("final") # {} <=> pc \in {"analyze", "done"}
    /\ \A c \in Checkpoints("final") :
          /\ Checkpoints("pre-run") # {}
          /\ \A i \in RoundEvents \cup Checkpoints("pre-run") : i < c
          /\ \A a \in Analyses : a = c + 1
    /\ pc = "done" => Analyses # {}
    /\ pc = "aborted" => \A i \in Idx : ~IsEv(i, "checkpoint")

\* round 1 ran, its worker checked the last box, round 2 read a ledger with no
\* pending task and stopped the loop: the final checkpoint was made
C30_Witness ==
    /\ pc = "done"
    /\ max_rounds = 2
    /\ Spawns(1) # {}
    /\ \E i \in Reads(2) : trace[i].n = 0
    /\ \E c \in Checkpoints("final") : \A i \in Reads(2) : i < c
    /\ Checkpoints("pre-run") # {}

\* ------------------------------------------------------------------ C29

\* Runs long enough for the periodic checkpoint: one lane, MaxLongRounds - 1
\* or MaxLongRounds rounds, a ready project with one pending task, with and
\* without a git repository; the workers write handoffs and check the box, at
\* most LongRunWrites times in all.
MaxLongRounds == 6

LongRunWrites == 2

LongDirKeys == (0..MaxLongRounds) \X (1..MaxLaneIdx)

InitRounds ==
    /\ claude_md = TRUE
    /\ tasks_md = File(AllPending(1))
    /\ has_git \in BOOLEAN
    /\ dirs = [k \in LongDirKeys |-> NoDir]
    /\ procs = {}
    /\ writes = MaxWorkerWrites - LongRunWrites
    /\ num_lanes = 1
    /\ max_rounds \in (MaxLongRounds - 1)..MaxLongRounds
    /\ pc = "validate"
    /\ round_num = 0
    /\ tasks = <<>>
    /\ tasks_this_round = <<>>
    /\ lane_num = 0
    /\ rounds_completed = 0
    /\ validation = NoValidation
    /\ polls = 0
    /\ analysis = NoAnalysis
    /\ trace = <<Ev("start", 0)>>

\* the project is ready: the run has no SETUP phase
NextRounds ==
    \/ Validate
    \/ PreRunCheckpoint
    \/ RoundStart
    \/ SpawnLane
    \/ WaitPoll
    \/ WaitTimeout
    \/ EndRound
    \/ FinalCheckpoint
    \/ Analyze
    \/ WriteHandoff
    \/ FlipCheckbox

SpecRounds == InitRounds /\ [][NextRounds]_vars

\* the periodic checkpoints of round r
Periodic(r) == {c \in Checkpoints("periodic") : trace[c].round = r}

\* C29: the periodic checkpoint is made right after the wait of round r iff r
\* is a multiple of 5, one per such round, and never for a round whose read
\* found no pending task; what follows it does not depend on its result:
\* after a checkpoint that returned false as after one that returned true the
\* delay and the read of round r + 1 come next when r < max_rounds, the final
\* checkpoint and the analysis otherwise.
C29_PeriodicCheckpoint ==
    /\ \A c \in Checkpoints("periodic") :
          LET r == trace[c].round
          IN  /\ r >= 1
              /\ r % 5 = 0
              /\ c - 1 \in Waits(r)
              /\ \E i \in Reads(r) : trace[i].n >= 1
              /\ IF r < max_rounds
                 THEN /\ Len(trace) > c /\ IsEv(c + 1, "delay") /\ trace[c + 1].round = r
                      /\ Len(trace) > c + 1 => c + 2 \in Reads(r + 1)
                 ELSE /\ Len(trace) > c => c + 1 \in Checkpoints("final")
                      /\ Len(trace) > c + 1 => c + 2 \in Analyses
    /\ \A r \in 1..(MaxLongRounds + 1) :
          /\ Cardinality(Periodic(r)) <= 1
          /\ \A w \in Waits(r) :
                RoundPast(r, {"spawn", "wait", "end_round"})
                    => (r % 5 = 0 <=> w + 1 \in Periodic(r))
          /\ \A i \in Reads(r) : trace[i].n = 0 => Periodic(r) = {}
    /\ pc = "done" =>
          \A r \in 1..max_rounds :
              Waits(r) # {} => (Reads(r + 1) # {} <=> r < max_rounds)

\* without a git repository the checkpoint of round 5 returned false; the
\* delay, the read and the launch of round 6 and the analysis followed, and no
\* other round made a periodic checkpoint
C29_Witness ==
    /\ pc = "done"
    /\ ~has_git
    /\ \E c \in Periodic(5) : ~trace[c].ok
    /\ Checkpoints("periodic") = Periodic(5)
    /\ Spawns(6) # {}
    /\ Waits(4) # {}

\* ------------------------------------------------------------------ C31

\* the delays taken after round r
Delays(r) == {d \in Idx : IsEv(d, "delay") /\ trace[d].round = r}

\* the rounds the loop has started: each has read the ledger
StartedRounds == {r \in 1..(MaxRounds + 1) : Reads(r) # {}}

PollTicks == 2
MaxTimeout == 5

InitWait ==
    /\ claude_md = TRUE
    /\ tasks_md = NoFile
    /\ has_git = FALSE
    /\ dirs = [k \in DirKeys |-> IF k[1] = 1 /\ k[2] <= MaxLanes
                                  THEN [NoDir EXCEPT !.present = TRUE, !.worker_md = TRUE]
                                  ELSE NoDir]
    /\ procs = {}
    /\ writes = 0
    /\ num_lanes \in LaneChoices
    /\ max_rounds = 1
    /\ pc = "wait_check"
    /\ round_num = 1
    /\ tasks = <<>>
    /\ tasks_this_round = <<>>
    /\ lane_num = 0
    /\ rounds_completed = 1
    /\ validation = NoValidation
    /\ polls = 0
    /\ \E t \in 1..MaxTimeout :
          analysis = [done |-> FALSE, timeout |-> t, now |-> 0, slept |-> 0,
                      returned |-> FALSE, ret |-> FALSE,
                      all_at |-> -1, polled_all |-> FALSE]
    /\ trace = <<>>

\* lines 435-443: the loop condition, then the count of the handoffs
WaitCheck ==
    /\ pc = "wait_check"
    /\ IF analysis.now < analysis.timeout
       THEN IF Missing(num_lanes, round_num) = {}
            THEN /\ analysis' = [analysis EXCEPT !.returned = TRUE, !.ret = TRUE,
                                                  !.polled_all = TRUE]
                 /\ pc' = "wait_returned"
            ELSE /\ analysis' = [analysis EXCEPT !.slept = 0]
                 /\ pc' = "wait_sleep"
       ELSE /\ analysis' = [analysis EXCEPT !.returned = TRUE, !.ret = FALSE]
            /\ pc' = "wait_returned"
    /\ polls' = polls + 1
    /\ UNCHANGED <<project, dirs, procs, writes, num_lanes, max_rounds, round_num,
                   tasks, tasks_this_round, lane_num, rounds_completed, validation,
                   trace>>

\* line 446: time.sleep(60), one tick at a time
WaitSleep ==
    /\ pc = "wait_sleep"
    /\ analysis' = [analysis EXCEPT !.now = @ + 1, !.slept = @ + 1]
    /\ pc' = IF analysis'.slept = PollTicks THEN "wait_check" ELSE "wait_sleep"
    /\ UNCHANGED <<project, dirs, procs, writes, sched_but_analysis, trace>>

\* a worker of the round writes its HANDOFF.md; all_at is the time at which
\* the last missing handoff appeared
HandoffAppears ==
    /\ pc \in {"wait_check", "wait_sleep"}
    /\ \E l \in Missing(num_lanes, round_num) :
          /\ dirs' = [dirs EXCEPT ![<<round_num, l>>] =
                        [@ EXCEPT !.handoff = TRUE, !.handoff_size = MinHandoffSize + 1]]
          /\ analysis' = [analysis EXCEPT
                            !.all_at = IF Missing(num_lanes, round_num) = {l}
                                       THEN analysis.now ELSE @]
    /\ writes' = writes + 1
    /\ UNCHANGED <<project, procs, pc, sched_but_analysis, trace>>

NextWait == WaitCheck \/ WaitSleep \/ HandoffAppears

SpecWait == InitWait /\ [][NextWait]_vars

\* C32 as stated: if every assigned lane's handoff exists at some instant
\* strictly before the timeout, counted from the start of the wait, the wait
\* returns True; and it returns False only if at no poll all handoffs were
\* present.
C32_Original ==
    analysis.returned =>
        /\ (analysis.all_at >= 0 /\ analysis.all_at < analysis.timeout) => analysis.ret
        /\ ~analysis.ret => ~analysis.polled_all

\* ------------------------------------------------------------------ C33

\* the directory held a handoff of an earlier run when this run started (a
\* worker of this run does not write a handoff where one exists)
StaleHandoff(k) == trace[1].n > 0 /\ StaleDirs[k].handoff

\* C33 as stated: a wait returns True only on handoffs written by the workers
\* launched for its lanes in this run; a handoff an earlier run left in
\* round_<r>_lane_<l> never makes it return True.
C33_Original ==
    \A w \in Idx :
        (IsEv(w, "wait") /\ trace[w].ok) =>
            \A l \in 1..trace[w].n : ~StaleHandoff(<<trace[w].round, l>>)

\* ------------------------------------------------------------------ C34

\* C34: the wait of a round counts every assigned lane, started or not: when
\* the launch of a lane failed and its directory has no handoff, the wait of
\* that round is for as many lanes as were assigned, does not return True and
\* ends by its timeout with that lane missing, also when every started lane
\* of the round has written its handoff.
C34_FailedLaunchWait ==
    \A j \in FailedSpawns :
        LET r == trace[j].round
            l == trace[j].lane
        IN  ~dirs[<<r, l>>].handoff =>
                /\ (pc = "wait" /\ round_num = r) => ~AllComplete
                /\ \A w \in Waits(r) :
                      /\ ~trace[w].ok
                      /\ l \in trace[w].missing
                      /\ trace[w].n = Cardinality(Spawns(r))

\* lane 1 of round 1 failed to launch, the worker of lane 2 wrote its handoff,
\* and the wait of round 1 ended by its timeout with lane 1 alone missing
C34_Witness ==
    \E j \in FailedSpawns : \E w \in Waits(1) :
        /\ trace[j].round = 1 /\ trace[j].lane = 1
        /\ ~dirs[<<1, 1>>].handoff
        /\ dirs[<<1, 2>>].handoff
        /\ \E k \in Spawns(1) : trace[k].lane = 2 /\ trace[k].ok
        /\ ~trace[w].ok
        /\ trace[w].missing = {1}

\* ------------------------------------------------------------------ C35

\* the run had no SETUP phase: the project is as validate_project saw it until
\* the first worker of round 1 is started
NoSetup == Spawns(0) = {}

\* C35 as stated: when validate_project reports ready and the ledger is not
\* changed in between, the read of round 1 finds at least one incomplete
\* task; and when get_incomplete_tasks is not empty and CLAUDE.md exists,
\* validate_project reports ready.
C35_Original ==
    /\ (NoSetup /\ validation.ready) => \A i \in Reads(1) : trace[i].n >= 1
    /\ (pc \in {"prerun_checkpoint", "setup_spawn"} /\ NoSetup)
          => ((claude_md /\ get_incomplete_tasks(tasks_md) # <<>>) => validation.ready)

\* ------------------------------------------------------------------ C36

\* only the lower-case x is counted as completed
count_tasks_lower(file) ==
    IF ~file.exists THEN <<0, 0>>
    ELSE <<CountIn(file.lines, DoneBoxLower), CountIn(file.lines, PendingBox)>>

\* task_parser.count_tasks, and analyze_run lines 502-506: the literal counts
\* of "- [x]" plus "- [X]" and of "- [ ]"
count_tasks(file) ==
    IF ~file.exists THEN <<0, 0>>
    ELSE <<CountIn(file.lines, DoneBoxLower) + CountIn(file.lines, DoneBoxUpper),
           CountIn(file.lines, PendingBox)>>

InitCount ==
    /\ claude_md = TRUE
    /\ tasks_md \in Ledgers
    /\ has_git = FALSE
    /\ dirs = [k \in DirKeys |-> NoDir]
    /\ procs = {}
    /\ writes = 0
    /\ num_lanes = 1
    /\ max_rounds = 0
    /\ pc = "count"
    /\ round_num = 0
    /\ tasks = <<>>
    /\ tasks_this_round = <<>>
    /\ lane_num = 0
    /\ rounds_completed = 0
    /\ validation = NoValidation
    /\ polls = 0
    /\ analysis = [done |-> FALSE, counted |-> <<0, 0>>]
    /\ trace = <<>>

\* count_tasks on the ledger
CountTasks ==
    /\ pc = "count"
    /\ analysis' = [analysis EXCEPT !.counted = count_tasks(tasks_md)]
    /\ pc' = "parse"
    /\ UNCHANGED <<project, dirs, procs, writes, sched_but_analysis, trace>>

NextCount == CountTasks \/ ParseLedger

SpecCount == InitCount /\ [][NextCount]_vars

\* the three checkbox markers Count looks for
Markers == {PendingBox, DoneBoxLower, DoneBoxUpper}

HasMarker(line) == \E m \in Markers : Contains(line, m)

\* "- [ ] text", "- [x] text" or "- [X] text": a marker, one space, and a
\* text of at least one character that holds no marker
CanonicalLine(line) ==
    /\ Len(line) >= 7
    /\ SubSeq(line, 1, 5) \in Markers
    /\ line[6] = " "
    /\ ~HasMarker(SubSeq(line, 7, Len(line)))

\* every line is a canonical checkbox line or holds no marker at all
WellFormed(file) ==
    file.exists /\ \A i \in 1..Len(file.lines) :
        CanonicalLine(file.lines[i]) \/ ~HasMarker(file.lines[i])

\* every line is a canonical checkbox line, or holds no marker and is not a
\* checkbox line for the parser either
WellFormedForParse(file) ==
    file.exists /\ \A i \in 1..Len(file.lines) :
        \/ CanonicalLine(file.lines[i])
        \/ (~HasMarker(file.lines[i]) /\ ~MatchCheckbox(file.lines[i]).matched)

\* what Parse returned, counted: completed tasks and pending tasks
ParsedCounts ==
    <<Cardinality({i \in 1..Len(tasks) : tasks[i].completed}),
      Cardinality({i \in 1..Len(tasks) : ~tasks[i].completed})>>

\* C36 as stated: on every ledger whose lines are canonical checkbox lines or
\* hold no checkbox marker, Count returns the numbers of completed and of
\* pending tasks of Parse.
C36_Original ==
    (pc = "mark" /\ WellFormed(tasks_md)) => analysis.counted = ParsedCounts

\* C36: on every ledger whose lines are canonical checkbox lines, or hold no
\* checkbox marker and are not matched by the parser's pattern either, Count
\* returns the numbers of completed and of pending tasks of Parse.
C36_CountAgreesWithParse ==
    (pc = "mark" /\ WellFormedForParse(tasks_md)) => analysis.counted = ParsedCounts

\* a ledger of three canonical lines, one of each marker: Count and Parse
\* both give two completed and one pending
C36_Witness ==
    /\ pc = "mark"
    /\ WellFormedForParse(tasks_md)
    /\ Len(tasks_md.lines) = 3
    /\ \A i \in 1..3 : CanonicalLine(tasks_md.lines[i])
    /\ analysis.counted = <<2, 1>>
    /\ ParsedCounts = <<2, 1>>

\* C37 as stated: for every task T that get_incomplete_tasks returns for a
\* ledger, mark_task_complete(ledger, T.task) returns True and afterwards the
\* line T.line_num parses as a completed task (trailing whitespace and extra
\* spaces around the checkbox included).
C37_Original ==
    pc = "mark_again" =>
        LET incomplete == get_incomplete_tasks(analysis.before) IN
        \A k \in 1..Len(incomplete) :
            incomplete[k].task = analysis.task_text =>
                /\ analysis.ret
                /\ \E j \in 1..Len(tasks) :
                      /\ tasks[j].line_num = incomplete[k].line_num
                      /\ tasks[j].completed

\* C38: in every analysis completed + failed + timeout = total_workers with
\* every counter >= 0; success_rate is 100 * completed / total_workers when
\* total_workers > 0 and 0 when total_workers = 0, so it lies in 0..100.
C38_MetricsPartition ==
    pc = "analyzed" =>
        LET m == analysis.metrics IN
        /\ m.completed >= 0 /\ m.failed >= 0 /\ m.timeout >= 0
        /\ m.total_workers >= 0
        /\ m.completed + m.failed + m.timeout = m.total_workers
        /\ m.success_rate.den > 0
        /\ IF m.total_workers > 0
           THEN m.success_rate.num * m.total_workers
                  = 100 * m.completed * m.success_rate.den
           ELSE m.success_rate.num = 0
        /\ 0 <= m.success_rate.num
        /\ m.success_rate.num <= 100 * m.success_rate.den

\* an analysis of five directories: some complete, one failed, one timed out
C38_Witness ==
    /\ pc = "analyzed"
    /\ analysis.metrics.total_workers = MaxSnapshotDirs
    /\ analysis.metrics.completed >= 1
    /\ analysis.metrics.failed >= 1
    /\ analysis.metrics.timeout >= 1
    /\ analysis.metrics.success_rate.num < 100 * analysis.metrics.success_rate.den

\* an analysis that found no directory: every counter 0, the rate 0
C38_NoWorkers ==
    /\ pc = "analyzed"
    /\ analysis.metrics.total_workers = 0
    /\ analysis.metrics.success_rate = [num |-> 0, den |-> 1]

\* ------------------------------------------- lane counts of zero and below

\* --lanes is parsed with type=int and passed on unchecked: zero and negative
\* values reach run_continuous
CliLanes == (0 - MaxLanes)..0

\* a run started with a lane count from CliLanes
InitLanes ==
    /\ \E prj \in Projects : claude_md = prj.claude_md /\ tasks_md = prj.tasks_md
    /\ \E env \in Environments : dirs = env.dirs /\ has_git = env.has_git
    /\ procs = {}
    /\ writes = 0
    /\ num_lanes \in CliLanes
    /\ max_rounds \in RoundChoices
    /\ pc = "validate"
    /\ round_num = 0
    /\ tasks = <<>>
    /\ tasks_this_round = <<>>
    /\ lane_num = 0
    /\ rounds_completed = 0
    /\ validation = NoValidation
    /\ polls = 0
    /\ analysis = NoAnalysis
    /\ trace = <<[Ev("start", 0) EXCEPT
                    !.n = Cardinality({k \in DirKeys : dirs[k].present})]>>

SpecLanes == InitLanes /\ [][Next]_vars

Max(a, b) == IF a > b THEN a ELSE b

\* C39 as stated: for every lane count the command line accepts, zero and
\* negative values included, a round launches at most max(num_lanes, 0)
\* workers, and the wait of the round counts as many lanes as the round
\* launched.
C39_Original ==
    \A r \in 1..MaxRounds :
        /\ Cardinality(Spawns(r)) <= Max(num_lanes, 0)
        /\ \A w \in Waits(r) : trace[w].n = Cardinality(Spawns(r))

\* the second half of C39 alone: the wait of a round counts as many lanes as
\* the round launched
C39_WaitCountsLaunched ==
    \A r \in 1..MaxRounds :
        \A w \in Waits(r) : trace[w].n = Cardinality(Spawns(r))

\* the rounds in which a task was assigned to a lane
AssignedRounds == {r \in 1..MaxRounds : Spawns(r) # {}}

\* the rounds whose ledger read found a pending task
PendingRounds == {r \in 1..MaxRounds : \E i \in Reads(r) : trace[i].n > 0}

\* the rounds that stopped on a ledger with no pending task
EmptyRounds == {r \in 1..MaxRounds : \E i \in Reads(r) : trace[i].n = 0}

\* C40 as stated: the rounds_completed the run reports is the number of
\* EXECUTE rounds in which at least one worker was assigned: 0 when round 1
\* found no pending task, never above max_rounds, and not counting a round
\* that stopped on an empty ledger.
C40_Original ==
    pc = "done" =>
        /\ analysis.rounds_completed = Cardinality(AssignedRounds)
        /\ analysis.rounds_completed <= max_rounds
        /\ 1 \in EmptyRounds => analysis.rounds_completed = 0
        /\ \A r \in EmptyRounds : analysis.rounds_completed = r - 1

\* C40: the rounds_completed the run reports is the number of EXECUTE rounds
\* whose ledger read found at least one pending task: 0 when round 1 found no
\* pending task, never above max_rounds, and not counting a round that
\* stopped on an empty ledger.
C40_RoundsCompleted ==
    /\ rounds_completed = Cardinality(PendingRounds)
    /\ rounds_completed <= max_rounds
    /\ 1 \in EmptyRounds => rounds_completed = 0
    /\ \A r \in EmptyRounds : rounds_completed = r - 1
    /\ pc = "done" => analysis.rounds_completed = rounds_completed

\* a run of two rounds with a negative lane count: round 1 assigned a task,
\* round 2 found a pending task and assigned none, and the run reports 2
C40_Witness ==
    /\ pc = "done"
    /\ num_lanes < 0
    /\ AssignedRounds = {1}
    /\ PendingRounds = {1, 2}
    /\ analysis.rounds_completed = 2

\* a run that stopped in round 2 on a ledger with no pending task reports 1
C40_StoppedOnEmpty ==
    /\ pc = "done"
    /\ max_rounds = 2
    /\ EmptyRounds = {2}
    /\ analysis.rounds_completed = 1
====
